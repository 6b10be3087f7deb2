-------------------------- MODULE CaseLifecycleProofs --------------------------
(***************************************************************************)
(* Proofs about CaseLifecycle for any finite set of cases, any users,      *)
(* branches and years and any number of requests in flight; and that with  *)
(* one request in flight at a time its handlers implement CaseLedger, and  *)
(* a repeat client keeps its MFL identifier.                               *)
(***************************************************************************)
EXTENDS MCCaseDesk, FiniteSetTheorems, TLAPS

-----------------------------------------------------------------------------
\* Every rule is a rule record; only a submit leaves the draft; only a
\* moderator's approval leads to the director; only the director finalises.
LEMMA TransitionsFacts ==
  /\ Transitions \subseteq RuleSet
  /\ \A t \in Transitions :
       /\ t.from = "DRAFT" => t.to = "MODERATION"
       /\ t.to = "DIRECTOR_REVIEW" => t.role = "MODERATOR" /\ t.decision = "APPROVE"
       /\ t.to = "FINALIZED" => t.from = "DIRECTOR_REVIEW"
BY DEF Transitions, RuleSet, Rule, Statuses, Roles, Decisions

\* The next application number of a branch is a positive number.
LEMMA NextRegNoType ==
  ASSUME TypeOK, NEW u \in Users
  PROVE  NextRegNo(BranchOf[u]) \in RegNos
<1> DEFINE S == {c \in Created : /\ row[c].regNo.branch = BranchOf[u]
                                 /\ row[c].regNo.year = today}
<1>1. IsFiniteSet(Cases) /\ BranchOf[u] \in Branches
  BY LifecycleAssumption
<1>2. S \subseteq Cases
  BY DEF Created
<1>3. Cardinality(S) \in Nat
  BY <1>1, <1>2, FS_Subset, FS_CardinalityType
<1>4. 1 + Cardinality(S) \in Nat \ {0}
  BY <1>3, SMT
<1> QED BY <1>1, <1>4 DEF NextRegNo, RegNos, TypeOK

\* The record kept by a request is told by its step.
LEMMA RequestKinds ==
  ASSUME TypeOK, NEW r \in Requests
  PROVE  /\ req[r].step \in {"gate", "number", "commit"} => req[r] \in TransitionRequests
         /\ req[r].step = "update" => req[r] \in UpdateRequests
         /\ req[r].step \in {"archive", "restore"} => req[r] \in ArchiveRequests
         /\ req[r].step = "create" => req[r] \in CreateRequests
BY DEF TypeOK, RequestStates, Idle, TransitionRequests, UpdateRequests, ArchiveRequests,
       CreateRequests

\* What the first read of transition leaves in the request.
ReadEffect(r, c, rule, step, numbered, reuse) ==
  /\ c \in Created
  /\ rule.from = row[c].status
  /\ (step = "commit") <=> (rule.from # "DRAFT")
  /\ numbered = Numbered(c)
  /\ reuse = SourceMfl(c)
  /\ req[r] = Idle
  /\ req' = [req EXCEPT ![r] = [step |-> step, case |-> c, rule |-> rule,
                                numbered |-> numbered, reuse |-> reuse]]
  /\ UNCHANGED <<row, log, globalNo, yearlyNo, today, issued>>

\* What reading a case for a transition leaves in the request: the rule it
\* found, the step it goes to next and the MFL it may reuse.
LEMMA ReadResult ==
  ASSUME TypeOK, NEW r \in Requests, NEW u \in Users, NEW c \in Cases, NEW d \in Decisions,
         ReadForTransition(r, u, c, d)
  PROVE  \E rule \in Transitions, step \in {"gate", "commit"}, numbered \in BOOLEAN,
            reuse \in MflIds \union {NoMfl} :
           ReadEffect(r, c, rule, step, numbered, reuse)
<1>1. PICK rule \in FindTransition(row[c].status, RoleOf[u], d) :
        Begin(r, [step |-> IF rule.from = "DRAFT" /\ rule.to = "MODERATION"
                           THEN "gate" ELSE "commit",
                  case |-> c, rule |-> rule, numbered |-> Numbered(c),
                  reuse |-> SourceMfl(c)])
  BY DEF ReadForTransition
<1>2. rule \in Transitions /\ rule.from = row[c].status
  BY DEF FindTransition
<1>3. rule.from = "DRAFT" => rule.to = "MODERATION"
  BY <1>2, TransitionsFacts
<1>4. Numbered(c) \in BOOLEAN
  BY DEF Numbered
<1>5. SourceMfl(c) \in MflIds \union {NoMfl}
  BY DEF SourceMfl, Numbered, Created, TypeOK, Rows, Numbers
<1> DEFINE step == IF rule.from = "DRAFT" /\ rule.to = "MODERATION" THEN "gate" ELSE "commit"
<1>6. step \in {"gate", "commit"} /\ (step = "commit" <=> rule.from # "DRAFT")
  BY <1>3
<1>7. /\ req[r] = Idle
      /\ req' = [req EXCEPT ![r] = [step |-> step, case |-> c, rule |-> rule,
                                    numbered |-> Numbered(c), reuse |-> SourceMfl(c)]]
  BY <1>1 DEF Begin
<1>8. c \in Created /\ UNCHANGED <<row, log, globalNo, yearlyNo, today, issued>>
  BY DEF ReadForTransition
<1> HIDE DEF step
<1> QED BY <1>2, <1>4, <1>5, <1>6, <1>7, <1>8 DEF ReadEffect

\* Writing a column leaves a row: the client, the source and the rest stay.
SameIdentity(x, y) == y \in Rows /\ y.source = x.source /\ y.client = x.client

\* Writing one column of a row (applyUpdate, archive, transition) gives a
\* row again, of the same client and source.
LEMMA ColumnWrites ==
  ASSUME NEW x \in Rows
  PROVE  /\ \A b \in BOOLEAN : SameIdentity(x, [x EXCEPT !.filled = b])
         /\ \A b \in BOOLEAN : SameIdentity(x, [x EXCEPT !.deleted = b])
         /\ \A t \in Statuses : SameIdentity(x, [x EXCEPT !.status = t])
         /\ \A n \in Numbers : SameIdentity(x, [x EXCEPT !.number = n])
BY DEF Rows, SameIdentity

\* The transaction of the number writes a number: the next global one, and an
\* MFL identifier that is either the one held or the next of the year.
LEMMA AssignedNumber ==
  ASSUME TypeOK, ReferencesExist, NEW r \in Requests, AssignNumber(r)
  PROVE  \E n \in Numbers :
           /\ row' = [row EXCEPT ![req[r].case].number = n]
           /\ n.global = globalNo + 1
           /\ \/ /\ req[r].reuse # NoMfl /\ n.mfl = req[r].reuse
                 /\ UNCHANGED <<yearlyNo, issued>>
              \/ /\ req[r].reuse = NoMfl
                 /\ n.mfl.no = yearlyNo[today] + 1
                 /\ yearlyNo' = [yearlyNo EXCEPT ![today] = @ + 1]
                 /\ issued' = issued \union
                      {[year |-> today, mfl |-> n.mfl, client |-> row[req[r].case].client]}
<1>1. req[r] \in TransitionRequests /\ row[req[r].case] \in Rows
  BY RequestKinds DEF AssignNumber, ReferencesExist, Created, TypeOK
<1> DEFINE fresh == [no |-> yearlyNo[today] + 1, branch |-> row[req[r].case].branch]
           mfl == IF req[r].reuse # NoMfl THEN req[r].reuse ELSE fresh
           n == [global |-> globalNo + 1, mfl |-> mfl]
<1>2. fresh \in MflIds
  BY <1>1 DEF MflIds, TypeOK, Rows
<1>3. mfl \in MflIds
  BY <1>1, <1>2 DEF TransitionRequests
<1>4. n \in Numbers
  BY <1>3 DEF Numbers, TypeOK
<1>5. row' = [row EXCEPT ![req[r].case].number = n]
  BY DEF AssignNumber, NextCounter
<1>6. yearlyNo' = IF req[r].reuse # NoMfl THEN yearlyNo
                  ELSE [yearlyNo EXCEPT ![today] = @ + 1]
  BY DEF AssignNumber, YearlyAfter, NextCounter
<1>7. issued' = IF req[r].reuse # NoMfl THEN issued
                ELSE issued \union
                  {[year |-> today, mfl |-> fresh, client |-> row[req[r].case].client]}
  BY DEF AssignNumber, NextCounter
<1> QED BY <1>4, <1>5, <1>6, <1>7

\* What the insert writes is a row, and it knows the client of its source.
LEMMA NewRowType ==
  ASSUME TypeOK, ReferencesExist, NEW r \in Requests, req[r].step = "create", NEW c \in Cases
  PROVE  /\ NewRow(c, req[r]) \in Rows
         /\ NewRow(c, req[r]) # NoRow
         /\ NewRow(c, req[r]).number = NoNumber
         /\ NewRow(c, req[r]).status = "DRAFT"
         /\ NewRow(c, req[r]).source = req[r].source
         /\ req[r].source # NoCase =>
              /\ req[r].source \in Created
              /\ NewRow(c, req[r]).client = row[req[r].source].client
<1>1. req[r] \in CreateRequests
  BY RequestKinds
<1>2. req[r].source # NoCase =>
        req[r].source \in Created /\ row[req[r].source].client \in Cases
  BY DEF ReferencesExist, Created, TypeOK, Rows
<1>3. NewRow(c, req[r]) \in Rows
  BY <1>1, <1>2, LifecycleAssumption DEF NewRow, Rows, CreateRequests, Statuses
<1> QED BY <1>2, <1>3, LifecycleAssumption DEF NewRow

-----------------------------------------------------------------------------
(***************************************************************************)
(* Types and references: cases are never removed, so a request's writes    *)
(* fall on rows that are still there.                                      *)
(***************************************************************************)
LEMMA TypeStep ==
  ASSUME TypeOK, ReferencesExist, [Next]_vars
  PROVE  TypeOK'
<1>1. CASE UNCHANGED vars
  BY <1>1 DEF vars, TypeOK
<1>2. CASE NewYear
  BY <1>2, LifecycleAssumption DEF NewYear, TypeOK
<1>3. ASSUME NEW r \in Requests, NEW u \in Users,
             NEW source \in Cases \union {NoCase}, NEW filled \in BOOLEAN,
             CountForCreate(r, u, source, filled)
      PROVE  TypeOK'
  BY <1>3, NextRegNoType
     DEF CountForCreate, Begin, TypeOK, RequestStates, CreateRequests
<1>4. ASSUME NEW r \in Requests, NEW u \in Users, NEW c \in Cases, NEW filled \in BOOLEAN,
             CheckUpdate(r, u, c, filled)
      PROVE  TypeOK'
  BY <1>4 DEF CheckUpdate, Begin, TypeOK, RequestStates, UpdateRequests
<1>5. ASSUME NEW r \in Requests, NEW u \in Users, NEW c \in Cases,
             CheckArchive(r, u, c) \/ CheckRestore(r, u, c)
      PROVE  TypeOK'
  BY <1>5, SMTT(20) DEF CheckArchive, CheckRestore, Begin, TypeOK, RequestStates, ArchiveRequests
<1>6. ASSUME NEW r \in Requests, NEW u \in Users, NEW c \in Cases, NEW d \in Decisions,
             ReadForTransition(r, u, c, d)
      PROVE  TypeOK'
  <2>1. PICK rule \in Transitions, step \in {"gate", "commit"}, numbered \in BOOLEAN,
             reuse \in MflIds \union {NoMfl} : ReadEffect(r, c, rule, step, numbered, reuse)
    BY <1>6, ReadResult
  <2>2. PICK new \in TransitionRequests :
          new = [step |-> step, case |-> c, rule |-> rule, numbered |-> numbered,
                 reuse |-> reuse]
    BY TransitionsFacts DEF TransitionRequests
  <2>3. req' = [req EXCEPT ![r] = new] /\ UNCHANGED <<row, log, globalNo, yearlyNo, today, issued>>
    BY <2>1, <2>2 DEF ReadEffect
  <2> QED BY <2>3 DEF TypeOK, RequestStates
<1>7. ASSUME NEW r \in Requests, InsertCase(r)
      PROVE  TypeOK'
  <2>1. \A c \in Cases : NewRow(c, req[r]) \in Rows
    BY <1>7, NewRowType DEF InsertCase
  <2> QED
    BY <1>7, <2>1 DEF InsertCase, End, TypeOK, RequestStates, Created
<1>8. ASSUME NEW r \in Requests, WriteUpdate(r)
      PROVE  TypeOK'
  <2>1. req[r] \in UpdateRequests /\ row[req[r].case] \in Rows
    BY <1>8, RequestKinds DEF WriteUpdate, ReferencesExist, Created, TypeOK
  <2> QED
    BY <1>8, <2>1 DEF WriteUpdate, End, TypeOK, RequestStates, UpdateRequests, Rows
<1>9. ASSUME NEW r \in Requests, WriteArchive(r)
      PROVE  TypeOK'
  <2>1. req[r] \in ArchiveRequests /\ row[req[r].case] \in Rows
    BY <1>9, RequestKinds DEF WriteArchive, ReferencesExist, Created, TypeOK
  <2> QED
    BY <1>9, <2>1 DEF WriteArchive, End, TypeOK, RequestStates, ArchiveRequests, Rows
<1>10. ASSUME NEW r \in Requests, PassSubmitGate(r)
       PROVE  TypeOK'
  <2>1. req[r] \in TransitionRequests
    BY <1>10, RequestKinds DEF PassSubmitGate
  <2> QED
    BY <1>10, <2>1 DEF PassSubmitGate, Goto, AfterGate, TypeOK, RequestStates,
                       TransitionRequests
<1>11. ASSUME NEW r \in Requests, FailSubmitGate(r) \/ AbortRequest(r)
       PROVE  TypeOK'
  BY <1>11 DEF FailSubmitGate, AbortRequest, End, TypeOK, RequestStates
<1>12. ASSUME NEW r \in Requests, AssignNumber(r)
       PROVE  TypeOK'
  <2>1. req[r] \in TransitionRequests /\ row[req[r].case] \in Rows
    BY <1>12, RequestKinds DEF AssignNumber, ReferencesExist, Created, TypeOK
  <2>2. globalNo' \in Nat
    BY <1>12 DEF AssignNumber, NextCounter, TypeOK
  <2>3. yearlyNo' \in [Years -> Nat]
    BY <1>12 DEF AssignNumber, YearlyAfter, NextCounter, TypeOK
  <2>4. row' \in [Cases -> Rows \union {NoRow}]
    <3>1. PICK n \in Numbers : row' = [row EXCEPT ![req[r].case].number = n]
      BY <1>12, AssignedNumber
    <3>2. [row[req[r].case] EXCEPT !.number = n] \in Rows
      BY <2>1, ColumnWrites DEF SameIdentity
    <3> QED BY <3>1, <3>2 DEF TypeOK
  <2>5. req' \in [Requests -> RequestStates]
    BY <1>12, <2>1 DEF AssignNumber, Goto, TypeOK, RequestStates, TransitionRequests
  <2>6. issued' \subseteq Issues
    <3>1. PICK n \in Numbers :
            \/ issued' = issued
            \/ issued' = issued \union
                 {[year |-> today, mfl |-> n.mfl, client |-> row[req[r].case].client]}
      BY <1>12, AssignedNumber
    <3>2. [year |-> today, mfl |-> n.mfl, client |-> row[req[r].case].client] \in Issues
      BY <2>1 DEF Issues, Numbers, Rows, TypeOK
    <3> QED BY <3>1, <3>2 DEF TypeOK
  <2> QED BY <1>12, <2>2, <2>3, <2>4, <2>5, <2>6 DEF AssignNumber, TypeOK
<1>13. ASSUME NEW r \in Requests, CommitTransition(r)
       PROVE  TypeOK'
  <2>1. req[r] \in TransitionRequests /\ row[req[r].case] \in Rows
    BY <1>13, RequestKinds DEF CommitTransition, ReferencesExist, Created, TypeOK
  <2>2. req[r].case \in Cases /\ req[r].rule \in RuleSet /\ req[r].rule.to \in Statuses
    BY <2>1 DEF TransitionRequests, RuleSet
  <2>3. row' \in [Cases -> Rows \union {NoRow}]
    BY <1>13, <2>1, <2>2 DEF CommitTransition, TypeOK, Rows
  <2>4. Append(log[req[r].case], req[r].rule) \in Seq(RuleSet)
    BY <2>2 DEF TypeOK
  <2>5. log' \in [Cases -> Seq(RuleSet)]
    BY <1>13, <2>2, <2>4 DEF CommitTransition, TypeOK
  <2> QED
    BY <1>13, <2>3, <2>5 DEF CommitTransition, End, TypeOK, RequestStates
<1> QED
  BY <1>1, <1>2, <1>3, <1>4, <1>5, <1>6, <1>7, <1>8, <1>9, <1>10, <1>11, <1>12, <1>13
     DEF Next, Receive, Advance

\* Every step keeps the cases that requests and repeats refer to, and no
\* case changes its client.
LEMMA ReferencesStep ==
  ASSUME TypeOK, ReferencesExist, [Next]_vars
  PROVE  /\ ReferencesExist'
         /\ Created \subseteq Created'
         /\ \A c \in Created : row'[c].client = row[c].client
<1> DEFINE Goal == /\ ReferencesExist'
                   /\ Created \subseteq Created'
                   /\ \A c \in Created : row'[c].client = row[c].client
<1>1. CASE UNCHANGED vars
  BY <1>1 DEF vars, ReferencesExist, Created
<1>2. CASE NewYear
  BY <1>2 DEF NewYear, ReferencesExist, Created
<1>3. ASSUME NEW r \in Requests, NEW u \in Users,
             NEW source \in Cases \union {NoCase}, NEW filled \in BOOLEAN,
             CountForCreate(r, u, source, filled)
      PROVE  Goal
  BY <1>3 DEF CountForCreate, Begin, TypeOK, ReferencesExist, Created
<1>4. ASSUME NEW r \in Requests, NEW u \in Users, NEW c \in Cases, NEW filled \in BOOLEAN,
             CheckUpdate(r, u, c, filled)
      PROVE  Goal
  BY <1>4 DEF CheckUpdate, Begin, TypeOK, ReferencesExist, Created
<1>5. ASSUME NEW r \in Requests, NEW u \in Users, NEW c \in Cases,
             CheckArchive(r, u, c) \/ CheckRestore(r, u, c)
      PROVE  Goal
  <2>1. PICK new : /\ new.step \in {"archive", "restore"} /\ new.case = c
                   /\ req' = [req EXCEPT ![r] = new]
    BY <1>5 DEF CheckArchive, CheckRestore, Begin
  <2>2. row' = row /\ Created' = Created /\ c \in Created
    BY <1>5 DEF CheckArchive, CheckRestore, Created
  <2>3. req'[r] = new /\ \A q \in Requests \ {r} : req'[q] = req[q]
    BY <2>1 DEF TypeOK
  <2> QED BY <2>1, <2>2, <2>3 DEF ReferencesExist
<1>6. ASSUME NEW r \in Requests, NEW u \in Users, NEW c \in Cases, NEW d \in Decisions,
             ReadForTransition(r, u, c, d)
      PROVE  Goal
  <2>1. PICK rule \in Transitions, step \in {"gate", "commit"}, numbered \in BOOLEAN,
             reuse \in MflIds \union {NoMfl} : ReadEffect(r, c, rule, step, numbered, reuse)
    BY <1>6, ReadResult
  <2> QED BY <2>1 DEF ReadEffect, TypeOK, ReferencesExist, Created
<1>7. ASSUME NEW r \in Requests, InsertCase(r)
      PROVE  Goal
  <2>1. CASE row' = row
    BY <1>7, <2>1 DEF InsertCase, End, TypeOK, ReferencesExist, Created, Idle
  <2>2. ASSUME NEW c \in Cases \ Created, row' = [row EXCEPT ![c] = NewRow(c, req[r])]
        PROVE  Goal
    <3>1. /\ row'[c] # NoRow
          /\ row'[c].source = req[r].source
          /\ req[r].source # NoCase =>
               /\ req[r].source \in Created
               /\ row'[c].client = row[req[r].source].client
      BY <1>7, <2>2, NewRowType DEF InsertCase, TypeOK
    <3> QED
      BY <1>7, <2>2, <3>1 DEF InsertCase, End, TypeOK, ReferencesExist, Created, Idle
  <2> QED BY <1>7, <2>1, <2>2 DEF InsertCase
<1>8. ASSUME NEW r \in Requests, WriteUpdate(r) \/ WriteArchive(r)
      PROVE  Goal
  <2> DEFINE k == req[r].case
  <2>1. k \in Created /\ row[k] \in Rows /\ row \in [Cases -> Rows \union {NoRow}]
    BY <1>8 DEF WriteUpdate, WriteArchive, ReferencesExist, Created, TypeOK
  <2>2. row' = [row EXCEPT ![k] = row'[k]] /\ SameIdentity(row[k], row'[k])
    <3>1. CASE WriteUpdate(r)
      <4>1. req[r].filled \in BOOLEAN
        BY <3>1, RequestKinds DEF WriteUpdate, UpdateRequests
      <4>2. row'[k] = [row[k] EXCEPT !.filled = req[r].filled]
        BY <3>1, <2>1 DEF WriteUpdate, Created
      <4> QED BY <3>1, <2>1, <4>1, <4>2, ColumnWrites DEF WriteUpdate
    <3>2. CASE WriteArchive(r)
      <4>1. row'[k] = [row[k] EXCEPT !.deleted = (req[r].step = "archive")]
        BY <3>2, <2>1 DEF WriteArchive, Created
      <4>2. SameIdentity(row[k], row'[k])
        BY <2>1, <4>1, ColumnWrites
      <4> QED BY <3>2, <2>1, <4>1, <4>2 DEF WriteArchive
    <3> QED BY <1>8, <3>1, <3>2
  <2>3. \A q \in Requests : req'[q] = req[q] \/ req'[q] = Idle
    BY <1>8 DEF WriteUpdate, WriteArchive, End, TypeOK
  <2> HIDE DEF k
  <2>4. Created' = Created
    BY <2>1, <2>2, LifecycleAssumption DEF Created, SameIdentity
  <2> QED BY <2>1, <2>2, <2>3, <2>4 DEF ReferencesExist, Created, Idle, SameIdentity
<1>9. ASSUME NEW r \in Requests, PassSubmitGate(r)
      PROVE  Goal
  <2>1. req[r].case \in Created /\ req[r] \in TransitionRequests
    BY <1>9, RequestKinds DEF PassSubmitGate, ReferencesExist
  <2>2. req'[r].case = req[r].case /\ req'[r].step \in {"number", "commit"}
    BY <1>9, <2>1 DEF PassSubmitGate, Goto, AfterGate, TypeOK, TransitionRequests
  <2>3. \A q \in Requests \ {r} : req'[q] = req[q]
    BY <1>9 DEF PassSubmitGate, Goto, TypeOK
  <2> QED BY <1>9, <2>1, <2>2, <2>3 DEF PassSubmitGate, ReferencesExist, Created
<1>10. ASSUME NEW r \in Requests, FailSubmitGate(r) \/ AbortRequest(r)
       PROVE  Goal
  <2>1. \A q \in Requests : req'[q] = req[q] \/ req'[q] = Idle
    BY <1>10 DEF FailSubmitGate, AbortRequest, End, TypeOK
  <2>2. row' = row
    BY <1>10 DEF FailSubmitGate, AbortRequest
  <2> QED BY <2>1, <2>2 DEF ReferencesExist, Created, Idle
<1>11. ASSUME NEW r \in Requests, AssignNumber(r) \/ CommitTransition(r)
       PROVE  Goal
  <2> DEFINE k == req[r].case
  <2>1. k \in Created /\ row[k] \in Rows /\ row \in [Cases -> Rows \union {NoRow}]
        /\ req[r] \in TransitionRequests
    BY <1>11, RequestKinds
       DEF AssignNumber, CommitTransition, ReferencesExist, Created, TypeOK
  <2>2. row' = [row EXCEPT ![k] = row'[k]] /\ SameIdentity(row[k], row'[k])
    <3>1. CASE AssignNumber(r)
      <4>1. PICK n \in Numbers : row' = [row EXCEPT ![k].number = n]
        BY <3>1, <2>1, AssignedNumber
      <4>2. row'[k] = [row[k] EXCEPT !.number = n]
        BY <4>1, <2>1 DEF Created
      <4>3. SameIdentity(row[k], row'[k])
        BY <2>1, <4>2, ColumnWrites
      <4> QED BY <2>1, <4>1, <4>2, <4>3
    <3>2. CASE CommitTransition(r)
      <4>1. req[r].rule.to \in Statuses
        BY <2>1 DEF TransitionRequests, RuleSet
      <4>2. row'[k] = [row[k] EXCEPT !.status = req[r].rule.to]
        BY <3>2, <2>1 DEF CommitTransition, Created
      <4>3. SameIdentity(row[k], row'[k])
        BY <2>1, <4>1, <4>2, ColumnWrites
      <4> QED BY <3>2, <2>1, <4>1, <4>2, <4>3 DEF CommitTransition
    <3> QED BY <1>11, <3>1, <3>2
  <2>3. \A q \in Requests : req'[q] = req[q] \/ req'[q] = Idle
                             \/ (req'[q].step = "commit" /\ req'[q].case = k)
    BY <1>11, <2>1
       DEF AssignNumber, CommitTransition, Goto, End, TypeOK, TransitionRequests
  <2> HIDE DEF k
  <2>4. Created' = Created
    BY <2>1, <2>2, LifecycleAssumption DEF Created, SameIdentity
  <2> QED BY <2>1, <2>2, <2>3, <2>4 DEF ReferencesExist, Created, Idle, SameIdentity
<1> QED
  BY <1>1, <1>2, <1>3, <1>4, <1>5, <1>6, <1>7, <1>8, <1>9, <1>10, <1>11
     DEF Next, Receive, Advance

-----------------------------------------------------------------------------
(***************************************************************************)
(* The rest of the invariant is about numbers, statuses, the log and the   *)
(* transitions in flight.  Most steps touch none of these: Harmless says   *)
(* so, and StepKinds leaves five kinds of steps to look at.                *)
(***************************************************************************)
InFlightSteps == {"gate", "number", "commit"}

Harmless ==
  /\ \A c \in Cases : /\ row'[c] = NoRow <=> row[c] = NoRow
                      /\ c \in Created => /\ row'[c].number = row[c].number
                                          /\ row'[c].status = row[c].status
                                          /\ row'[c].client = row[c].client
                                          /\ row'[c].source = row[c].source
  /\ UNCHANGED <<log, globalNo, yearlyNo, issued>>
  /\ \A q \in Requests : req'[q] = req[q] \/ req'[q].step \notin InFlightSteps

Inserts(r, c) ==
  /\ req[r].step = "create"
  /\ row' = [row EXCEPT ![c] = NewRow(c, req[r])]
  /\ req' = [req EXCEPT ![r] = Idle]
  /\ UNCHANGED <<log, globalNo, yearlyNo, issued>>

\* Every step of the handlers is harmless to numbers and log, or one of the
\* five writes that are not: insert, read, gate, number, commit.
LEMMA StepKinds ==
  ASSUME TypeOK, ReferencesExist, [Next]_vars
  PROVE  \/ Harmless
         \/ \E r \in Requests, c \in Cases \ Created : Inserts(r, c)
         \/ \E r \in Requests, c \in Cases, rule \in Transitions, step \in {"gate", "commit"},
               numbered \in BOOLEAN, reuse \in MflIds \union {NoMfl} :
              ReadEffect(r, c, rule, step, numbered, reuse)
         \/ \E r \in Requests : PassSubmitGate(r) \/ AssignNumber(r) \/ CommitTransition(r)
<1> DEFINE Insert == \E r \in Requests, c \in Cases \ Created : Inserts(r, c)
           Read == \E r \in Requests, c \in Cases, rule \in Transitions,
                      step \in {"gate", "commit"}, numbered \in BOOLEAN,
                      reuse \in MflIds \union {NoMfl} :
                     ReadEffect(r, c, rule, step, numbered, reuse)
<1>1. CASE UNCHANGED vars
  BY <1>1 DEF vars, Harmless
<1>2. CASE NewYear
  BY <1>2 DEF NewYear, Harmless
<1>3. ASSUME NEW r \in Requests, NEW u \in Users,
             NEW source \in Cases \union {NoCase}, NEW filled \in BOOLEAN,
             CountForCreate(r, u, source, filled)
      PROVE  Harmless
  BY <1>3 DEF CountForCreate, Begin, TypeOK, Harmless, InFlightSteps
<1>4. ASSUME NEW r \in Requests, NEW u \in Users, NEW c \in Cases, NEW filled \in BOOLEAN,
             CheckUpdate(r, u, c, filled)
      PROVE  Harmless
  BY <1>4 DEF CheckUpdate, Begin, TypeOK, Harmless, InFlightSteps
<1>5. ASSUME NEW r \in Requests, NEW u \in Users, NEW c \in Cases,
             CheckArchive(r, u, c) \/ CheckRestore(r, u, c)
      PROVE  Harmless
  BY <1>5 DEF CheckArchive, CheckRestore, Begin, TypeOK, Harmless, InFlightSteps
<1>6. ASSUME NEW r \in Requests, NEW u \in Users, NEW c \in Cases, NEW d \in Decisions,
             ReadForTransition(r, u, c, d)
      PROVE  Read
  BY <1>6, ReadResult
<1>7. ASSUME NEW r \in Requests, InsertCase(r)
      PROVE  Harmless \/ Insert
  <2>1. CASE row' = row
    <3>1. \A q \in Requests : req'[q] = req[q] \/ req'[q] = Idle
      BY <1>7 DEF InsertCase, End, TypeOK
    <3> QED BY <1>7, <2>1, <3>1 DEF InsertCase, Harmless, InFlightSteps, Idle
  <2>2. ASSUME NEW c \in Cases \ Created, row' = [row EXCEPT ![c] = NewRow(c, req[r])]
        PROVE  Inserts(r, c)
    BY <1>7, <2>2 DEF InsertCase, End, Inserts
  <2> QED BY <1>7, <2>1, <2>2 DEF InsertCase
<1>8. ASSUME NEW r \in Requests, WriteUpdate(r) \/ WriteArchive(r)
      PROVE  Harmless
  <2> DEFINE k == req[r].case
  <2>1. k \in Created /\ row[k] \in Rows /\ row \in [Cases -> Rows \union {NoRow}]
    BY <1>8 DEF WriteUpdate, WriteArchive, ReferencesExist, Created, TypeOK
  <2>2. /\ row' = [row EXCEPT ![k] = row'[k]]
        /\ row'[k] \in Rows
        /\ row'[k].number = row[k].number /\ row'[k].status = row[k].status
        /\ row'[k].client = row[k].client /\ row'[k].source = row[k].source
    <3>1. CASE WriteUpdate(r)
      <4>1. req[r].filled \in BOOLEAN
        BY <3>1, RequestKinds DEF WriteUpdate, UpdateRequests
      <4>2. row'[k] = [row[k] EXCEPT !.filled = req[r].filled]
        BY <3>1, <2>1 DEF WriteUpdate, Created
      <4>3. row'[k] \in Rows
        BY <2>1, <4>1, <4>2, ColumnWrites DEF SameIdentity
      <4>4. /\ row'[k].number = row[k].number /\ row'[k].status = row[k].status
            /\ row'[k].client = row[k].client /\ row'[k].source = row[k].source
        BY <2>1, <4>2 DEF Rows
      <4> QED BY <3>1, <2>1, <4>2, <4>3, <4>4 DEF WriteUpdate
    <3>2. CASE WriteArchive(r)
      <4>1. row'[k] = [row[k] EXCEPT !.deleted = (req[r].step = "archive")]
        BY <3>2, <2>1 DEF WriteArchive, Created
      <4>2. row'[k] \in Rows
        BY <2>1, <4>1, ColumnWrites DEF SameIdentity
      <4>3. /\ row'[k].number = row[k].number /\ row'[k].status = row[k].status
            /\ row'[k].client = row[k].client /\ row'[k].source = row[k].source
        BY <2>1, <4>1 DEF Rows
      <4> QED BY <3>2, <2>1, <4>1, <4>2, <4>3 DEF WriteArchive
    <3> QED BY <1>8, <3>1, <3>2
  <2>3. \A q \in Requests : req'[q] = req[q] \/ req'[q] = Idle
    BY <1>8 DEF WriteUpdate, WriteArchive, End, TypeOK
  <2>4. UNCHANGED <<log, globalNo, yearlyNo, issued>>
    BY <1>8 DEF WriteUpdate, WriteArchive
  <2> HIDE DEF k
  <2> QED
    BY <2>1, <2>2, <2>3, <2>4, LifecycleAssumption
       DEF Harmless, Created, Idle, InFlightSteps
<1>9. ASSUME NEW r \in Requests, FailSubmitGate(r) \/ AbortRequest(r)
      PROVE  Harmless
  <2>1. \A q \in Requests : req'[q] = req[q] \/ req'[q] = Idle
    BY <1>9 DEF FailSubmitGate, AbortRequest, End, TypeOK
  <2>2. UNCHANGED <<row, log, globalNo, yearlyNo, issued>>
    BY <1>9 DEF FailSubmitGate, AbortRequest
  <2> QED BY <2>1, <2>2 DEF Harmless, Idle, InFlightSteps
<1> QED
  BY <1>1, <1>2, <1>3, <1>4, <1>5, <1>6, <1>7, <1>8, <1>9
     DEF Next, Receive, Advance

\* Rows other than those of a set K keep what the invariant is about.
RowsKept(K) ==
  \A c \in Created \ K : /\ row'[c].number = row[c].number
                         /\ row'[c].status = row[c].status
                         /\ row'[c].client = row[c].client

\* The new row is an unnumbered draft.
LEMMA InsertRow ==
  ASSUME TypeOK, ReferencesExist, NEW r \in Requests, NEW c \in Cases \ Created, Inserts(r, c)
  PROVE  /\ Created' = Created \union {c}
         /\ row'[c].number = NoNumber /\ row'[c].status = "DRAFT"
         /\ RowsKept({})
         /\ UNCHANGED <<log, globalNo, yearlyNo, issued>>
         /\ \A q \in Requests : req'[q] = req[q] \/ req'[q] = Idle
<1>1. NewRow(c, req[r]) # NoRow /\ NewRow(c, req[r]).number = NoNumber
      /\ NewRow(c, req[r]).status = "DRAFT"
  BY NewRowType DEF Inserts
<1> QED BY <1>1 DEF Inserts, TypeOK, Created, RowsKept

\* Only the number of the case changes, to one above the counters.
LEMMA AssignRow ==
  ASSUME TypeOK, ReferencesExist, NEW r \in Requests, AssignNumber(r)
  PROVE  /\ req[r] \in TransitionRequests /\ req[r].case \in Created
         /\ Created' = Created
         /\ RowsKept({req[r].case})
         /\ row'[req[r].case].status = row[req[r].case].status
         /\ row'[req[r].case].client = row[req[r].case].client
         /\ log' = log /\ globalNo' = globalNo + 1
         /\ req' = [req EXCEPT ![r].step = "commit"]
         /\ row'[req[r].case].number \in Numbers
         /\ row'[req[r].case].number.global = globalNo + 1
<1> DEFINE k == req[r].case
<1>1. req[r] \in TransitionRequests /\ k \in Created /\ row[k] \in Rows
  BY RequestKinds DEF AssignNumber, ReferencesExist, Created, TypeOK
<1>2. PICK n \in Numbers : row' = [row EXCEPT ![k].number = n] /\ n.global = globalNo + 1
  BY AssignedNumber
<1>3. row' = [row EXCEPT ![k] = [row[k] EXCEPT !.number = n]]
  BY <1>1, <1>2 DEF Created, TypeOK
<1>4. row'[k] = [row[k] EXCEPT !.number = n]
  BY <1>1, <1>3 DEF Created, TypeOK
<1>5. row'[k] \in Rows
  BY <1>1, <1>4, ColumnWrites DEF SameIdentity
<1>6. row'[k].number = n /\ row'[k].status = row[k].status /\ row'[k].client = row[k].client
  BY <1>1, <1>4 DEF Rows
<1>7. \A c \in Cases \ {k} : row'[c] = row[c]
  BY <1>3 DEF TypeOK
<1> HIDE DEF k
<1>8. Created' = Created
  BY <1>1, <1>5, <1>7, LifecycleAssumption DEF Created
<1>9. RowsKept({k})
  BY <1>7 DEF RowsKept, Created
<1>10. /\ log' = log /\ globalNo' = globalNo + 1
       /\ req' = [req EXCEPT ![r].step = "commit"]
  BY DEF AssignNumber, NextCounter, Goto
<1> QED BY <1>1, <1>2, <1>6, <1>8, <1>9, <1>10 DEF k

\* Only the status of the case changes, and the log grows by the same rule.
LEMMA CommitRow ==
  ASSUME TypeOK, ReferencesExist, NEW r \in Requests, CommitTransition(r)
  PROVE  /\ req[r] \in TransitionRequests /\ req[r].case \in Created
         /\ Created' = Created
         /\ RowsKept({req[r].case})
         /\ row'[req[r].case].number = row[req[r].case].number
         /\ row'[req[r].case].client = row[req[r].case].client
         /\ row'[req[r].case].status = req[r].rule.to
         /\ log' = [log EXCEPT ![req[r].case] = Append(@, req[r].rule)]
         /\ UNCHANGED <<globalNo, yearlyNo, issued>>
         /\ req' = [req EXCEPT ![r] = Idle]
<1> DEFINE k == req[r].case
           t == req[r].rule.to
<1>1. req[r] \in TransitionRequests /\ k \in Created /\ row[k] \in Rows
  BY RequestKinds DEF CommitTransition, ReferencesExist, Created, TypeOK
<1>2. t \in Statuses
  BY <1>1 DEF TransitionRequests, RuleSet
<1>3. row' = [row EXCEPT ![k] = [row[k] EXCEPT !.status = t]]
  BY <1>1 DEF CommitTransition, Created, TypeOK
<1>4. row'[k] = [row[k] EXCEPT !.status = t]
  BY <1>1, <1>3 DEF Created, TypeOK
<1>5. row'[k] \in Rows
  BY <1>1, <1>2, <1>4, ColumnWrites DEF SameIdentity
<1>6. row'[k].status = t /\ row'[k].number = row[k].number /\ row'[k].client = row[k].client
  BY <1>1, <1>4 DEF Rows
<1>7. \A c \in Cases \ {k} : row'[c] = row[c]
  BY <1>3 DEF TypeOK
<1> HIDE DEF k, t
<1>8. Created' = Created
  BY <1>1, <1>5, <1>7, LifecycleAssumption DEF Created
<1>9. RowsKept({k})
  BY <1>7 DEF RowsKept, Created
<1>10. /\ log' = [log EXCEPT ![k] = Append(@, req[r].rule)]
       /\ UNCHANGED <<globalNo, yearlyNo, issued>>
       /\ req' = [req EXCEPT ![r] = Idle]
  BY DEF CommitTransition, End, k
<1> QED BY <1>1, <1>6, <1>8, <1>9, <1>10 DEF k, t

\* A harmless step keeps what the invariant is about.
LEMMA HarmlessRow ==
  ASSUME TypeOK, Harmless
  PROVE  Created' = Created /\ RowsKept({})
BY DEF Harmless, Created, RowsKept

-----------------------------------------------------------------------------
\* Every step keeps the numbers below the counter and apart: the row lock on
\* the counter (nextCounter) hands each out once.
LEMMA NumbersStep ==
  ASSUME TypeOK, ReferencesExist, NumbersIssued, GlobalNoUnique, [Next]_vars
  PROVE  NumbersIssued' /\ GlobalNoUnique'
<1> USE DEF NumbersIssued, GlobalNoUnique, Numbered, RowsKept
<1>0. \A c \in Created : Numbered(c) => row[c].number.global \in Nat
  BY DEF TypeOK, Created, Rows, Numbers
<1>1. CASE Harmless
  BY <1>1, HarmlessRow DEF Harmless
<1>2. ASSUME NEW r \in Requests, NEW c \in Cases \ Created, Inserts(r, c)
      PROVE  NumbersIssued' /\ GlobalNoUnique'
  BY <1>2, InsertRow
<1>3. CASE UNCHANGED <<row, globalNo>>
  BY <1>3 DEF Created
<1>4. ASSUME NEW r \in Requests, AssignNumber(r)
      PROVE  NumbersIssued' /\ GlobalNoUnique'
  <2> DEFINE k == req[r].case
  <2>1. /\ k \in Created /\ Created' = Created /\ RowsKept({k})
        /\ row'[k].number \in Numbers
        /\ row'[k].number.global = globalNo + 1 /\ globalNo' = globalNo + 1
    BY <1>4, AssignRow
  <2>2. globalNo \in Nat
    BY DEF TypeOK
  <2> HIDE DEF k
  <2> QED BY <1>0, <2>1, <2>2
<1>5. ASSUME NEW r \in Requests, CommitTransition(r)
      PROVE  NumbersIssued' /\ GlobalNoUnique'
  <2> DEFINE k == req[r].case
  <2>1. /\ k \in Created /\ Created' = Created /\ RowsKept({k})
        /\ row'[k].number = row[k].number /\ globalNo' = globalNo
    BY <1>5, CommitRow
  <2> HIDE DEF k
  <2> QED BY <2>1
<1> QED
  BY <1>1, <1>2, <1>3, <1>4, <1>5, StepKinds DEF ReadEffect, PassSubmitGate

\* Every step keeps that a transition about to commit has its number, hence
\* that no case leaves the draft without one.
LEMMA CommitStep ==
  ASSUME TypeOK, ReferencesExist, CommitKnowsNumber, NumberedOutsideDraft, RulesHeld, [Next]_vars
  PROVE  CommitKnowsNumber' /\ NumberedOutsideDraft'
<1> USE DEF CommitKnowsNumber, NumberedOutsideDraft, Numbered, RowsKept
<1> DEFINE Goal == CommitKnowsNumber' /\ NumberedOutsideDraft'
<1>1. CASE Harmless
  BY <1>1, HarmlessRow DEF Harmless, InFlightSteps
<1>2. ASSUME NEW r \in Requests, NEW c \in Cases \ Created, Inserts(r, c)
      PROVE  Goal
  BY <1>2, InsertRow DEF Idle
<1>3. ASSUME NEW r \in Requests, NEW c \in Cases, NEW rule \in Transitions,
             NEW step \in {"gate", "commit"}, NEW numbered \in BOOLEAN,
             NEW reuse \in MflIds \union {NoMfl}, ReadEffect(r, c, rule, step, numbered, reuse)
      PROVE  Goal
  BY <1>3 DEF ReadEffect, TypeOK, Created
<1>4. ASSUME NEW r \in Requests, PassSubmitGate(r)
      PROVE  Goal
  <2>1. req[r] \in TransitionRequests
    BY <1>4, RequestKinds DEF PassSubmitGate
  <2> QED
    BY <1>4, <2>1 DEF PassSubmitGate, Goto, AfterGate, TypeOK, Created, TransitionRequests
<1>5. ASSUME NEW r \in Requests, AssignNumber(r)
      PROVE  Goal
  <2> DEFINE k == req[r].case
  <2>1. /\ k \in Created /\ Created' = Created /\ RowsKept({k})
        /\ row'[k].number # NoNumber /\ row'[k].status = row[k].status
    BY <1>5, AssignRow, LifecycleAssumption
  <2>2. /\ req'[r].case = k /\ req'[r].step = "commit"
        /\ \A q \in Requests \ {r} : req'[q] = req[q]
    BY <1>5, AssignRow DEF TypeOK, TransitionRequests
  <2> HIDE DEF k
  <2> QED BY <2>1, <2>2
<1>6. ASSUME NEW r \in Requests, CommitTransition(r)
      PROVE  Goal
  <2> DEFINE k == req[r].case
  <2>1. /\ k \in Created /\ Created' = Created /\ RowsKept({k})
        /\ row'[k].number = row[k].number
    BY <1>6, CommitRow
  <2>2. \A q \in Requests : req'[q] = req[q] \/ req'[q] = Idle
    BY <1>6, CommitRow DEF TypeOK
  <2>3. Numbered(k)
    BY <1>6 DEF CommitTransition
  <2> HIDE DEF k
  <2> QED BY <2>1, <2>2, <2>3 DEF Idle
<1> QED
  BY <1>1, <1>2, <1>3, <1>4, <1>5, <1>6, StepKinds

\* Appending an event: it becomes the last one, and no approval is forgotten.
LEMMA AppendedLog ==
  ASSUME TypeOK, NEW k \in Cases, NEW e \in RuleSet, log' = [log EXCEPT ![k] = Append(@, e)]
  PROVE  /\ log'[k] # << >> /\ log'[k][Len(log'[k])] = e
         /\ \A c \in Cases \ {k} : log'[c] = log[c]
         /\ \A c \in Cases : HasApproval(log[c]) => HasApproval(log'[c])
         /\ e.role = "MODERATOR" /\ e.decision = "APPROVE" => HasApproval(log'[k])
<1> DEFINE s == log[k]
<1>1. s \in Seq(RuleSet) /\ log'[k] = Append(s, e)
  BY DEF TypeOK
<1>2. \A c \in Cases \ {k} : log'[c] = log[c]
  BY DEF TypeOK
<1> HIDE DEF s
<1>3. /\ Len(Append(s, e)) = Len(s) + 1 /\ Len(s) \in Nat
      /\ Append(s, e)[Len(s) + 1] = e
      /\ \A i \in 1..Len(s) : Append(s, e)[i] = s[i]
      /\ DOMAIN s = 1..Len(s) /\ DOMAIN Append(s, e) = 1..(Len(s) + 1)
  BY <1>1
<1>4. Append(s, e) # << >>
  BY <1>3
<1>5. ASSUME NEW c \in Cases, HasApproval(log[c])
      PROVE  HasApproval(log'[c])
  <2>1. CASE c # k
    BY <1>2, <1>5, <2>1 DEF HasApproval
  <2>2. CASE c = k
    <3>1. PICK i \in DOMAIN s : s[i].role = "MODERATOR" /\ s[i].decision = "APPROVE"
      BY <1>5, <2>2 DEF HasApproval, s
    <3>2. i \in DOMAIN log'[k] /\ log'[k][i] = s[i]
      BY <1>1, <1>3, <3>1
    <3> QED BY <2>2, <3>1, <3>2 DEF HasApproval
  <2> QED BY <2>1, <2>2
<1>6. ASSUME e.role = "MODERATOR", e.decision = "APPROVE"
      PROVE  HasApproval(log'[k])
  <2>1. Len(s) + 1 \in DOMAIN log'[k] /\ log'[k][Len(s) + 1] = e
    BY <1>1, <1>3
  <2> QED BY <1>6, <2>1 DEF HasApproval
<1> QED BY <1>1, <1>2, <1>3, <1>4, <1>5, <1>6

\* Every step keeps the log in line with the status, and the moderator's
\* approval before the director's step, also a commit on a stale read.
LEMMA LogStep ==
  ASSUME TypeOK, ReferencesExist, RulesHeld, StatusIsLastEvent, ModeratorApprovedFirst,
         LogOfCreated, [Next]_vars
  PROVE  RulesHeld' /\ StatusIsLastEvent' /\ ModeratorApprovedFirst' /\ LogOfCreated'
<1> USE DEF LogOfCreated
<1> DEFINE Goal == RulesHeld' /\ StatusIsLastEvent' /\ ModeratorApprovedFirst' /\ LogOfCreated'
<1>0. Created \subseteq Cases
  BY DEF Created
<1>1. CASE Harmless
  <2>1. Created' = Created /\ log' = log /\ \A c \in Created : row'[c].status = row[c].status
    BY <1>1, HarmlessRow DEF Harmless, RowsKept
  <2>2. RulesHeld'
    BY <1>1, <2>1 DEF Harmless, InFlightSteps, RulesHeld
  <2> QED
    BY <2>1, <2>2 DEF StatusIsLastEvent, ModeratorApprovedFirst
<1>2. ASSUME NEW r \in Requests, NEW c \in Cases \ Created, Inserts(r, c)
      PROVE  Goal
  <2>1. /\ Created' = Created \union {c} /\ log' = log
        /\ row'[c].status = "DRAFT" /\ log[c] = << >>
        /\ \A d \in Created : row'[d].status = row[d].status
        /\ \A q \in Requests : req'[q] = req[q] \/ req'[q] = Idle
    BY <1>2, InsertRow DEF RowsKept
  <2>2. RulesHeld'
    BY <2>1 DEF Idle, RulesHeld
  <2> QED
    BY <2>1, <2>2 DEF StatusIsLastEvent, ModeratorApprovedFirst
<1>3. ASSUME NEW r \in Requests, NEW c \in Cases, NEW rule \in Transitions,
             NEW step \in {"gate", "commit"}, NEW numbered \in BOOLEAN,
             NEW reuse \in MflIds \union {NoMfl}, ReadEffect(r, c, rule, step, numbered, reuse)
      PROVE  Goal
  <2>1. UNCHANGED <<row, log>> /\ Created' = Created
    BY <1>3 DEF ReadEffect, Created
  <2>2. rule.from = "DIRECTOR_REVIEW" => HasApproval(log[c])
    BY <1>3 DEF ReadEffect, ModeratorApprovedFirst
  <2>3. RulesHeld'
    BY <1>3, <2>1, <2>2 DEF ReadEffect, RulesHeld, TypeOK
  <2> QED
    BY <2>1, <2>3 DEF StatusIsLastEvent, ModeratorApprovedFirst
<1>4. ASSUME NEW r \in Requests, PassSubmitGate(r) \/ AssignNumber(r)
      PROVE  Goal
  <2>1. /\ Created' = Created /\ log' = log
        /\ \A c \in Created : row'[c].status = row[c].status
    BY <1>4, AssignRow DEF PassSubmitGate, RowsKept, Created
  <2>2. req[r] \in TransitionRequests
    BY <1>4, RequestKinds DEF PassSubmitGate, AssignNumber
  <2>3. /\ req'[r].case = req[r].case /\ req'[r].rule = req[r].rule
        /\ \A q \in Requests \ {r} : req'[q] = req[q]
    BY <1>4, <2>2 DEF PassSubmitGate, AssignNumber, Goto, TypeOK, TransitionRequests
  <2>4. /\ req[r].step \in InFlightSteps
        /\ \A q \in Requests : req[q].step \in InFlightSteps => req[q].case \in Created
    BY <1>4 DEF PassSubmitGate, AssignNumber, ReferencesExist, InFlightSteps
  <2>5. RulesHeld'
    BY <2>1, <2>3, <2>4 DEF RulesHeld, InFlightSteps
  <2> QED
    BY <2>1, <2>5 DEF StatusIsLastEvent, ModeratorApprovedFirst
<1>5. ASSUME NEW r \in Requests, CommitTransition(r)
      PROVE  Goal
  <2> DEFINE k == req[r].case
             rule == req[r].rule
  <2>1. /\ k \in Created /\ Created' = Created
        /\ \A c \in Created \ {k} : row'[c].status = row[c].status
        /\ row'[k].status = rule.to
        /\ log' = [log EXCEPT ![k] = Append(@, rule)]
        /\ \A q \in Requests : req'[q] = req[q] \/ req'[q] = Idle
    BY <1>5, CommitRow DEF RowsKept, TypeOK
  <2>2. rule \in RuleSet
    BY <1>5, RequestKinds DEF CommitTransition, TransitionRequests
  <2>3. rule \in Transitions /\ (rule.from = "DIRECTOR_REVIEW" => HasApproval(log[k]))
    BY <1>5 DEF CommitTransition, RulesHeld
  <2>4. /\ req[r].step = "commit"
        /\ \A q \in Requests : req[q].step \in InFlightSteps => req[q].case \in Created
    BY <1>5 DEF CommitTransition, ReferencesExist, InFlightSteps
  <2> HIDE DEF k, rule
  <2>5. /\ log'[k] # << >> /\ log'[k][Len(log'[k])] = rule
        /\ \A c \in Cases \ {k} : log'[c] = log[c]
        /\ \A c \in Cases : HasApproval(log[c]) => HasApproval(log'[c])
        /\ rule.role = "MODERATOR" /\ rule.decision = "APPROVE" => HasApproval(log'[k])
    BY <1>0, <2>1, <2>2, AppendedLog
  <2>6. RulesHeld'
    BY <1>0, <2>1, <2>4, <2>5 DEF RulesHeld, Idle, InFlightSteps
  <2>7. StatusIsLastEvent'
    BY <1>0, <2>1, <2>5 DEF StatusIsLastEvent
  <2>8. ModeratorApprovedFirst'
    <3>1. \A c \in Created : HasApproval(log[c]) => HasApproval(log'[c])
      BY <1>0, <2>5
    <3>2. rule.to \in {"DIRECTOR_REVIEW", "FINALIZED"} => HasApproval(log'[k])
      BY <2>1, <2>3, <2>5, <3>1, TransitionsFacts
    <3> QED BY <2>1, <3>1, <3>2 DEF ModeratorApprovedFirst
  <2>9. LogOfCreated'
    BY <1>0, <2>1, <2>5
  <2> QED BY <2>6, <2>7, <2>8, <2>9
<1> QED
  BY <1>1, <1>2, <1>3, <1>4, <1>5, StepKinds

-----------------------------------------------------------------------------
(***************************************************************************)
(* MFL identifiers.  A yearly counter gives a number once in its year, and *)
(* every step but the numbering of a new client leaves no claim that was   *)
(* not there before: a repeat case claims what its source's row already    *)
(* claims, for the same client.                                            *)
(***************************************************************************)
Claim(m, k) == [mfl |-> m, client |-> k]

\* The claims there are.
LEMMA ClaimsMade ==
  /\ \A c \in Created : row[c].number # NoNumber =>
       Claim(row[c].number.mfl, row[c].client) \in MflClaims
  /\ \A r \in Requests : req[r].step \in InFlightSteps /\ req[r].reuse # NoMfl =>
       Claim(req[r].reuse, row[req[r].case].client) \in MflClaims
BY DEF MflClaims, Claim, Numbered, InFlight, InFlightSteps

\* A set that holds every claim made in the next state holds MflClaims'.
LEMMA ClaimsAfter ==
  ASSUME NEW S,
         \A c \in Created' : row'[c].number # NoNumber =>
           Claim(row'[c].number.mfl, row'[c].client) \in S,
         \A r \in Requests : req'[r].step \in InFlightSteps /\ req'[r].reuse # NoMfl =>
           Claim(req'[r].reuse, row'[req'[r].case].client) \in S
  PROVE  MflClaims' \subseteq S
BY DEF MflClaims, Claim, Numbered, InFlight, InFlightSteps

\* No new claim and no issue forgotten: the invariant stays.
LEMMA FewerClaims ==
  ASSUME MflClaimsIssued, MflClaims' \subseteq MflClaims, issued' = issued
  PROVE  MflClaimsIssued'
BY DEF MflClaimsIssued

\* Every step keeps that a year's counter gives a number once: it gives the one
\* above all it gave before.
LEMMA IssuedStep ==
  ASSUME TypeOK, ReferencesExist, IssuedOnce, [Next]_vars
  PROVE  IssuedOnce'
<1>1. ASSUME UNCHANGED <<yearlyNo, issued>> PROVE IssuedOnce'
  BY <1>1 DEF IssuedOnce
<1>2. CASE Harmless
  BY <1>1, <1>2 DEF Harmless
<1>3. ASSUME NEW r \in Requests, NEW c \in Cases, Inserts(r, c)
      PROVE  IssuedOnce'
  BY <1>1, <1>3 DEF Inserts
<1>4. ASSUME NEW r \in Requests, PassSubmitGate(r) \/ CommitTransition(r)
      PROVE  IssuedOnce'
  BY <1>1, <1>4 DEF PassSubmitGate, CommitTransition
<1>5. ASSUME NEW r \in Requests, AssignNumber(r)
      PROVE  IssuedOnce'
  <2>1. PICK n \in Numbers :
          \/ UNCHANGED <<yearlyNo, issued>>
          \/ /\ n.mfl.no = yearlyNo[today] + 1
             /\ yearlyNo' = [yearlyNo EXCEPT ![today] = @ + 1]
             /\ issued' = issued \union
                  {[year |-> today, mfl |-> n.mfl, client |-> row[req[r].case].client]}
    BY <1>5, AssignedNumber
  <2>2. CASE /\ n.mfl.no = yearlyNo[today] + 1
             /\ yearlyNo' = [yearlyNo EXCEPT ![today] = @ + 1]
             /\ issued' = issued \union
                  {[year |-> today, mfl |-> n.mfl, client |-> row[req[r].case].client]}
    <3> DEFINE new == [year |-> today, mfl |-> n.mfl, client |-> row[req[r].case].client]
    <3>1. new.year = today /\ new.mfl.no = yearlyNo[today] + 1
      BY <2>2
    <3>2. today \in Years /\ yearlyNo[today] \in Nat /\ yearlyNo'[today] = yearlyNo[today] + 1
      BY <2>2 DEF TypeOK
    <3>3. \A y \in Years : yearlyNo[y] \in Nat /\ yearlyNo'[y] \in Nat
                           /\ yearlyNo[y] <= yearlyNo'[y]
      BY <2>2 DEF TypeOK
    <3>4. \A p \in issued : p.year \in Years /\ p.mfl.no \in Nat
      BY DEF TypeOK, Issues, MflIds
    <3>5. issued' = issued \union {new}
      BY <2>2
    <3> HIDE DEF new
    <3>6. \A p \in issued : /\ p.mfl.no <= yearlyNo[p.year] /\ p.mfl.no <= yearlyNo'[p.year]
                            /\ ~(p.year = new.year /\ p.mfl.no = new.mfl.no)
      BY <3>1, <3>2, <3>3, <3>4 DEF IssuedOnce
    <3>7. new.mfl.no <= yearlyNo'[new.year]
      BY <3>1, <3>2
    <3> QED BY <3>5, <3>6, <3>7 DEF IssuedOnce
  <2> QED BY <1>1, <2>1, <2>2
<1> QED BY <1>1, <1>2, <1>3, <1>4, <1>5, StepKinds DEF ReadEffect

\* Every step keeps that a claim on an identifier is by the client it was given to.
LEMMA ClaimsStep ==
  ASSUME TypeOK, ReferencesExist, MflClaimsIssued, [Next]_vars
  PROVE  MflClaimsIssued'
<1>0. \A r \in Requests : req[r].step \in InFlightSteps => req[r].case \in Created
  BY DEF ReferencesExist, InFlightSteps
<1>1. CASE Harmless
  <2>1. /\ Created' = Created /\ issued' = issued
        /\ \A c \in Created : row'[c].number = row[c].number /\ row'[c].client = row[c].client
        /\ \A r \in Requests : req'[r] = req[r] \/ req'[r].step \notin InFlightSteps
    BY <1>1, HarmlessRow DEF Harmless, RowsKept
  <2>2. MflClaims' \subseteq MflClaims
    BY <1>0, <2>1, ClaimsMade, ClaimsAfter
  <2> QED BY <2>1, <2>2, FewerClaims
<1>2. ASSUME NEW r \in Requests, NEW c \in Cases \ Created, Inserts(r, c)
      PROVE  MflClaimsIssued'
  <2>1. /\ Created' = Created \union {c} /\ issued' = issued
        /\ row'[c].number = NoNumber
        /\ \A d \in Created : row'[d].number = row[d].number /\ row'[d].client = row[d].client
        /\ \A q \in Requests : req'[q] = req[q] \/ req'[q].step \notin InFlightSteps
    BY <1>2, InsertRow DEF RowsKept, Idle, InFlightSteps
  <2>2. MflClaims' \subseteq MflClaims
    BY <1>0, <2>1, ClaimsMade, ClaimsAfter
  <2> QED BY <2>1, <2>2, FewerClaims
<1>3. ASSUME NEW r \in Requests, NEW c \in Cases, NEW rule \in Transitions,
             NEW step \in {"gate", "commit"}, NEW numbered \in BOOLEAN,
             NEW reuse \in MflIds \union {NoMfl}, ReadEffect(r, c, rule, step, numbered, reuse)
      PROVE  MflClaimsIssued'
  <2>1. /\ Created' = Created /\ row' = row /\ issued' = issued
        /\ req'[r].case = c /\ req'[r].reuse = reuse
        /\ \A q \in Requests \ {r} : req'[q] = req[q]
    BY <1>3 DEF ReadEffect, TypeOK, Created
  <2>2. reuse # NoMfl => Claim(reuse, row[c].client) \in MflClaims
    <3>1. SUFFICES ASSUME reuse # NoMfl PROVE Claim(reuse, row[c].client) \in MflClaims
      OBVIOUS
    <3>2. /\ row[c].source \in Created /\ row[row[c].source].number # NoNumber
          /\ reuse = row[row[c].source].number.mfl
      BY <1>3, <3>1 DEF ReadEffect, SourceMfl, Numbered
    <3>3. row[row[c].source].client = row[c].client
      BY <1>3, <3>1, <3>2 DEF ReadEffect, ReferencesExist, SourceMfl
    <3> QED BY <3>2, <3>3, ClaimsMade
  <2>3. MflClaims' \subseteq MflClaims
    BY <2>1, <2>2, ClaimsMade, ClaimsAfter
  <2> QED BY <2>1, <2>3, FewerClaims
<1>4. ASSUME NEW r \in Requests, PassSubmitGate(r)
      PROVE  MflClaimsIssued'
  <2>1. req[r] \in TransitionRequests /\ req[r].step \in InFlightSteps
    BY <1>4, RequestKinds DEF PassSubmitGate, InFlightSteps
  <2>2. /\ Created' = Created /\ row' = row /\ issued' = issued
        /\ req'[r].case = req[r].case /\ req'[r].reuse = req[r].reuse
        /\ \A q \in Requests \ {r} : req'[q] = req[q]
    BY <1>4, <2>1 DEF PassSubmitGate, Goto, TypeOK, Created, TransitionRequests
  <2>3. MflClaims' \subseteq MflClaims
    BY <2>1, <2>2, ClaimsMade, ClaimsAfter
  <2> QED BY <2>2, <2>3, FewerClaims
<1>5. ASSUME NEW r \in Requests, CommitTransition(r)
      PROVE  MflClaimsIssued'
  <2>1. /\ Created' = Created /\ issued' = issued
        /\ \A c \in Created : row'[c].number = row[c].number /\ row'[c].client = row[c].client
        /\ \A q \in Requests : req'[q] = req[q] \/ req'[q].step \notin InFlightSteps
    BY <1>5, CommitRow DEF RowsKept, Idle, InFlightSteps, TypeOK
  <2>2. MflClaims' \subseteq MflClaims
    BY <1>0, <2>1, ClaimsMade, ClaimsAfter
  <2> QED BY <2>1, <2>2, FewerClaims
<1>6. ASSUME NEW r \in Requests, AssignNumber(r)
      PROVE  MflClaimsIssued'
  <2> DEFINE k == req[r].case
             n == row'[k].number
  <2>1. /\ req[r] \in TransitionRequests /\ req[r].step \in InFlightSteps
        /\ k \in Created /\ Created' = Created
        /\ row'[k].client = row[k].client
        /\ \A c \in Created \ {k} : row'[c].number = row[c].number /\ row'[c].client = row[c].client
    BY <1>6, AssignRow DEF RowsKept, AssignNumber, InFlightSteps
  <2>2. /\ req'[r].case = k /\ req'[r].reuse = req[r].reuse
        /\ \A q \in Requests \ {r} : req'[q] = req[q]
    <3>1. req' = [req EXCEPT ![r].step = "commit"] /\ req \in [Requests -> RequestStates]
      BY <1>6, AssignRow DEF TypeOK
    <3>2. req'[r] = [req[r] EXCEPT !.step = "commit"]
      BY <3>1
    <3>3. req'[r].case = req[r].case /\ req'[r].reuse = req[r].reuse
      BY <2>1, <3>2 DEF TransitionRequests
    <3> QED BY <3>1, <3>3
  <2>3. \/ n.mfl = req[r].reuse /\ req[r].reuse # NoMfl /\ issued' = issued
        \/ issued' = issued \union
             {[year |-> today, mfl |-> n.mfl, client |-> row[k].client]}
    <3>1. row[k] \in Rows
      BY <2>1 DEF Created, TypeOK
    <3>2. PICK m \in Numbers :
            /\ row' = [row EXCEPT ![k].number = m]
            /\ \/ req[r].reuse # NoMfl /\ m.mfl = req[r].reuse /\ issued' = issued
               \/ issued' = issued \union
                    {[year |-> today, mfl |-> m.mfl, client |-> row[k].client]}
      BY <1>6, AssignedNumber
    <3>3. n = m
      BY <2>1, <3>1, <3>2 DEF Created, TypeOK, Rows
    <3> QED BY <3>2, <3>3
  <2> DEFINE new == Claim(n.mfl, row[k].client)
  <2>4. MflClaims' \subseteq MflClaims \union {new}
    <3> HIDE DEF k, new
    <3>1. \A c \in Created' : row'[c].number # NoNumber =>
            Claim(row'[c].number.mfl, row'[c].client) \in MflClaims \union {new}
      BY <2>1, ClaimsMade DEF new
    <3>2. \A q \in Requests : req'[q].step \in InFlightSteps /\ req'[q].reuse # NoMfl =>
            Claim(req'[q].reuse, row'[req'[q].case].client) \in MflClaims \union {new}
      BY <1>0, <2>1, <2>2, ClaimsMade DEF k
    <3> QED BY <3>1, <3>2, ClaimsAfter
  <2>5. CASE n.mfl = req[r].reuse /\ req[r].reuse # NoMfl /\ issued' = issued
    <3>1. new \in MflClaims
      BY <2>1, <2>5, ClaimsMade
    <3> QED BY <2>4, <2>5, <3>1, FewerClaims
  <2>6. CASE issued' = issued \union
               {[year |-> today, mfl |-> n.mfl, client |-> row[k].client]}
    <3>1. \E i \in issued' : i.mfl = new.mfl /\ i.client = new.client
      <4> DEFINE i == [year |-> today, mfl |-> n.mfl, client |-> row[k].client]
      <4>1. i.mfl = new.mfl /\ i.client = new.client
        BY DEF Claim
      <4>2. i \in issued'
        BY <2>6
      <4> QED BY <4>1, <4>2
    <3>2. issued \subseteq issued'
      BY <2>6
    <3> HIDE DEF new, n, k
    <3> QED BY <2>4, <3>1, <3>2 DEF MflClaimsIssued
  <2> HIDE DEF n
  <2> QED BY <2>3, <2>5, <2>6
<1> QED BY <1>1, <1>2, <1>3, <1>4, <1>5, <1>6, StepKinds

-----------------------------------------------------------------------------
\* No case, no request: the invariant holds at the start.
LEMMA LifecycleStart == Init => LifecycleInv
BY DEF Init, LifecycleInv, TypeOK, RequestStates, Idle, ReferencesExist, LogOfCreated,
       NumbersIssued, GlobalNoUnique, IssuedOnce, MflClaimsIssued, MflClaims,
       CommitKnowsNumber, NumberedOutsideDraft, RulesHeld, StatusIsLastEvent,
       ModeratorApprovedFirst, Created, Numbered, InFlight

\* Every step keeps every part of the invariant.
LEMMA LifecycleStep == LifecycleInv /\ [Next]_vars => LifecycleInv'
BY TypeStep, ReferencesStep, NumbersStep, IssuedStep, ClaimsStep, CommitStep, LogStep DEF LifecycleInv

\* The whole invariant holds in every reachable state, for any number of cases
\* and of requests in flight.
THEOREM LifecycleInductive == Spec => []LifecycleInv
BY LifecycleStart, LifecycleStep, PTL DEF Spec

\* Types are kept, whatever the interleaving.
THEOREM LifecycleTypes == Spec => []TypeOK
<1>1. LifecycleInv => TypeOK
  BY DEF LifecycleInv
<1> QED BY <1>1, LifecycleInductive, PTL

\* No two cases ever carry the same contract number.
THEOREM ContractNumbersUnique == Spec => []GlobalNoUnique
<1>1. LifecycleInv => GlobalNoUnique
  BY DEF LifecycleInv
<1> QED BY <1>1, LifecycleInductive, PTL

\* Within a year an MFL identifier is given to one client, and a case carries none
\* but its own client's; different years may give the same one to two clients.
THEOREM MflIdsOneClientAYear == Spec => []MflIdOneClientAYear
<1>1. LifecycleInv => MflIdOneClientAYear
  <2> SUFFICES ASSUME LifecycleInv PROVE MflIdOneClientAYear
    OBVIOUS
  <2>1. \A p, q \in issued : p.year = q.year /\ p.mfl = q.mfl => p.client = q.client
    BY DEF LifecycleInv, IssuedOnce
  <2>2. ASSUME NEW c \in Cases, Numbered(c)
        PROVE  \E p \in issued : p.mfl = row[c].number.mfl /\ p.client = row[c].client
    <3>1. Claim(row[c].number.mfl, row[c].client) \in MflClaims
      BY <2>2, ClaimsMade DEF Numbered
    <3> QED BY <3>1 DEF LifecycleInv, MflClaimsIssued, Claim
  <2> QED BY <2>1, <2>2 DEF MflIdOneClientAYear
<1> QED BY <1>1, LifecycleInductive, PTL

\* What the numbers identify stays apart, for any number of submits in flight: the
\* contract numbers of all years, the MFL identifiers of each.
THEOREM IdentifiersStayApart == Spec => []IdentifiersUnique
<1>1. GlobalNoUnique /\ MflIdOneClientAYear => IdentifiersUnique
  BY DEF IdentifiersUnique
<1> QED BY <1>1, ContractNumbersUnique, MflIdsOneClientAYear, PTL

\* No case enters the workflow without its contract number.
THEOREM WorkflowCasesNumbered == Spec => []NumberedOutsideDraft
<1>1. LifecycleInv => NumberedOutsideDraft
  BY DEF LifecycleInv
<1> QED BY <1>1, LifecycleInductive, PTL

\* The workflow log always tells where the case is.
THEOREM LogTellsStatus == Spec => []StatusIsLastEvent
<1>1. LifecycleInv => StatusIsLastEvent
  BY DEF LifecycleInv
<1> QED BY <1>1, LifecycleInductive, PTL

\* No case is with the director, or final, that no moderator ever approved.
THEOREM FourEyes == Spec => []ModeratorApprovedFirst
<1>1. LifecycleInv => ModeratorApprovedFirst
  BY DEF LifecycleInv
<1> QED BY <1>1, LifecycleInductive, PTL

-----------------------------------------------------------------------------
(***************************************************************************)
(* Application numbers.  Counting and inserting are two steps: the number  *)
(* a request holds may have been taken meanwhile, never skipped.           *)
(***************************************************************************)
Mine(b, y) == {c \in Created : row[c].regNo.branch = b /\ row[c].regNo.year = y}

NumbersOf(S) == {row[c].regNo.no : c \in S}

RegNosCounted ==
  \A r \in Requests : req[r].step = "create" =>
    req[r].regNo.no <= 1 + Cardinality(Mine(req[r].regNo.branch, req[r].regNo.year))

\* Rows are finitely many, and so are those of one branch and year.
LEMMA MineFinite ==
  ASSUME NEW b, NEW y
  PROVE  IsFiniteSet(Mine(b, y)) /\ Cardinality(Mine(b, y)) \in Nat
<1>1. Mine(b, y) \subseteq Cases /\ IsFiniteSet(Cases)
  BY LifecycleAssumption DEF Mine, Created
<1> QED BY <1>1, FS_Subset, FS_CardinalityType

\* No step but an insert touches an application number, and the only number a request gets
\* is the count of that moment.
LEMMA RegNosTouched ==
  ASSUME TypeOK, ReferencesExist, [Next]_vars,
         \A r \in Requests : InsertCase(r) => row' = row
  PROVE  /\ Created' = Created /\ \A c \in Created : row'[c].regNo = row[c].regNo
         /\ \A r \in Requests : req'[r].step = "create" =>
              \/ req'[r] = req[r]
              \/ \E b \in Branches : req'[r].regNo = NextRegNo(b)
<1> DEFINE Goal == /\ Created' = Created /\ \A c \in Created : row'[c].regNo = row[c].regNo
                   /\ \A r \in Requests : req'[r].step = "create" =>
                        \/ req'[r] = req[r]
                        \/ \E b \in Branches : req'[r].regNo = NextRegNo(b)
<1>1. CASE UNCHANGED vars
  BY <1>1 DEF vars, Created
<1>2. CASE NewYear
  BY <1>2 DEF NewYear, Created
<1>3. ASSUME NEW r \in Requests, NEW u \in Users,
             NEW source \in Cases \union {NoCase}, NEW filled \in BOOLEAN,
             CountForCreate(r, u, source, filled)
      PROVE  Goal
  <2>1. PICK new : new = [step |-> "create", user |-> u, source |-> source, filled |-> filled,
                          regNo |-> NextRegNo(BranchOf[u])]
    OBVIOUS
  <2>2. req' = [req EXCEPT ![r] = new] /\ row' = row
    BY <1>3, <2>1 DEF CountForCreate, Begin
  <2>3. new.regNo = NextRegNo(BranchOf[u]) /\ BranchOf[u] \in Branches
    BY <2>1, LifecycleAssumption
  <2> QED BY <2>2, <2>3 DEF TypeOK, Created
<1>4. ASSUME NEW r \in Requests, NEW u \in Users, NEW c \in Cases, NEW filled \in BOOLEAN,
             \/ CheckUpdate(r, u, c, filled) \/ CheckArchive(r, u, c) \/ CheckRestore(r, u, c)
      PROVE  Goal
  BY <1>4 DEF CheckUpdate, CheckArchive, CheckRestore, Begin, TypeOK, Created
<1>5. ASSUME NEW r \in Requests, NEW u \in Users, NEW c \in Cases, NEW d \in Decisions,
             ReadForTransition(r, u, c, d)
      PROVE  Goal
  BY <1>5, ReadResult DEF ReadEffect, TypeOK, Created
<1>6. ASSUME NEW r \in Requests, InsertCase(r)
      PROVE  Goal
  <2>1. row' = row
    BY <1>6
  <2> QED BY <1>6, <2>1 DEF InsertCase, End, TypeOK, Created, Idle
<1>7. ASSUME NEW r \in Requests, NEW k \in Created, NEW x, x # NoRow,
             x.regNo = row[k].regNo, row' = [row EXCEPT ![k] = x],
             \A q \in Requests : req'[q] = req[q] \/ req'[q].step # "create"
      PROVE  Goal
  BY <1>7 DEF TypeOK, Created
<1>8. ASSUME NEW x \in Rows
      PROVE  x # NoRow /\ \A b, c, d, e : /\ [x EXCEPT !.filled = b].regNo = x.regNo
                                          /\ [x EXCEPT !.deleted = c].regNo = x.regNo
                                          /\ [x EXCEPT !.status = d].regNo = x.regNo
                                          /\ [x EXCEPT !.number = e].regNo = x.regNo
  BY LifecycleAssumption DEF Rows
<1>9. ASSUME NEW r \in Requests, WriteUpdate(r) \/ WriteArchive(r)
      PROVE  Goal
  <2>1. PICK k \in Created : k = req[r].case
    BY <1>9 DEF WriteUpdate, WriteArchive, ReferencesExist
  <2>2. row[k] \in Rows /\ row'[k] \in Rows /\ row'[k].regNo = row[k].regNo
        /\ row' = [row EXCEPT ![k] = row'[k]]
    <3>1. CASE WriteUpdate(r)
      <4>1. row' = [row EXCEPT ![k] = [row[k] EXCEPT !.filled = req[r].filled]]
        BY <2>1, <3>1 DEF WriteUpdate
      <4>2. req[r].filled \in BOOLEAN /\ row[k] \in Rows
        BY <3>1, <2>1, RequestKinds DEF WriteUpdate, UpdateRequests, TypeOK, Created
      <4> QED BY <4>1, <4>2, <1>8, ColumnWrites DEF SameIdentity, TypeOK, Created
    <3>2. CASE WriteArchive(r)
      <4>1. PICK b \in BOOLEAN : b = (req[r].step = "archive")
        BY Zenon
      <4>2. row' = [row EXCEPT ![k] = [row[k] EXCEPT !.deleted = b]] /\ row[k] \in Rows
        BY <2>1, <3>2, <4>1 DEF WriteArchive, TypeOK, Created
      <4> QED BY <4>2, <1>8, ColumnWrites DEF SameIdentity, TypeOK, Created
    <3> QED BY <1>9, <3>1, <3>2
  <2>3. \A q \in Requests : req'[q] = req[q] \/ req'[q].step # "create"
    BY <1>9 DEF WriteUpdate, WriteArchive, End, TypeOK, Idle
  <2> QED BY <1>7, <1>8, <2>2, <2>3
<1>10. ASSUME NEW r \in Requests, PassSubmitGate(r)
       PROVE  Goal
  <2>1. req[r] \in TransitionRequests
    BY <1>10, RequestKinds DEF PassSubmitGate
  <2>2. req'[r].step \in {"number", "commit"} /\ \A q \in Requests \ {r} : req'[q] = req[q]
    BY <1>10, <2>1 DEF PassSubmitGate, Goto, AfterGate, TypeOK, TransitionRequests
  <2> QED BY <1>10, <2>2 DEF PassSubmitGate, Created
<1>11. ASSUME NEW r \in Requests, FailSubmitGate(r) \/ AbortRequest(r)
       PROVE  Goal
  BY <1>11 DEF FailSubmitGate, AbortRequest, End, TypeOK, Created, Idle
<1>12. ASSUME NEW r \in Requests, AssignNumber(r) \/ CommitTransition(r)
       PROVE  Goal
  <2>1. PICK k \in Created : k = req[r].case
    BY <1>12 DEF AssignNumber, CommitTransition, ReferencesExist
  <2>2. row[k] \in Rows /\ req[r] \in TransitionRequests
    BY <1>12, <2>1, RequestKinds DEF AssignNumber, CommitTransition, TypeOK, Created
  <2>3. row'[k] \in Rows /\ row'[k].regNo = row[k].regNo /\ row' = [row EXCEPT ![k] = row'[k]]
    <3>1. CASE AssignNumber(r)
      <4>1. PICK n \in Numbers : row' = [row EXCEPT ![k] = [row[k] EXCEPT !.number = n]]
        BY <2>1, <3>1, AssignedNumber
      <4> QED BY <2>2, <4>1, <1>8, ColumnWrites DEF SameIdentity, TypeOK, Created
    <3>2. CASE CommitTransition(r)
      <4>1. PICK to \in Statuses : to = req[r].rule.to
        BY <2>2 DEF TransitionRequests, RuleSet
      <4>2. row' = [row EXCEPT ![k] = [row[k] EXCEPT !.status = to]]
        BY <2>1, <3>2, <4>1 DEF CommitTransition
      <4> QED BY <2>2, <4>2, <1>8, ColumnWrites DEF SameIdentity, TypeOK, Created
    <3> QED BY <1>12, <3>1, <3>2
  <2>4. \A q \in Requests : req'[q] = req[q] \/ req'[q].step # "create"
    BY <1>12, <2>2
       DEF AssignNumber, CommitTransition, Goto, End, TypeOK, Idle, TransitionRequests
  <2> QED BY <1>7, <1>8, <2>3, <2>4
<1> QED
  BY <1>1, <1>2, <1>3, <1>4, <1>5, <1>6, <1>9, <1>10, <1>11, <1>12
     DEF Next, Receive, Advance

\* The next number of a branch follows those there are.
LEMMA NextFollows ==
  ASSUME NEW b
  PROVE  /\ NextRegNo(b).branch = b /\ NextRegNo(b).year = today
         /\ NextRegNo(b).no = 1 + Cardinality(Mine(b, today))
BY DEF NextRegNo, Mine

\* Every step leaves the application numbers of a branch and year without a gap.
LEMMA RegNosStep ==
  ASSUME TypeOK, ReferencesExist, RegNosGapless, RegNosCounted, [Next]_vars
  PROVE  RegNosGapless' /\ RegNosCounted'
<1>1. CASE \A r \in Requests : InsertCase(r) => row' = row
  <2>1. /\ Created' = Created /\ \A c \in Created : row'[c].regNo = row[c].regNo
        /\ \A r \in Requests : req'[r].step = "create" =>
             \/ req'[r] = req[r]
             \/ \E b \in Branches : req'[r].regNo = NextRegNo(b)
    BY <1>1, RegNosTouched
  <2>2. \A b, y : Mine(b, y)' = Mine(b, y)
    BY <2>1 DEF Mine
  <2>3. ASSUME NEW b \in Branches, NEW y \in Years
        PROVE  NumbersOf(Mine(b, y))' = 1..Cardinality(Mine(b, y)')
    <3>1. Mine(b, y)' = Mine(b, y) /\ \A d \in Mine(b, y) : row'[d].regNo = row[d].regNo
      BY <2>1, <2>2 DEF Mine
    <3>2. NumbersOf(Mine(b, y))' = NumbersOf(Mine(b, y))
      BY <3>1 DEF NumbersOf
    <3> QED BY <3>1, <3>2 DEF RegNosGapless, Mine, NumbersOf
  <2>4. RegNosGapless'
    BY <2>3 DEF RegNosGapless, Mine, NumbersOf
  <2>5. ASSUME NEW r \in Requests, NEW m, req'[r].step = "create", req'[r].regNo = m
        PROVE  m.no <= 1 + Cardinality(Mine(m.branch, m.year)')
    <3>1. CASE req'[r] = req[r]
      BY <2>2, <2>5, <3>1 DEF RegNosCounted
    <3>2. ASSUME NEW b \in Branches, req'[r].regNo = NextRegNo(b)
          PROVE  m.no <= 1 + Cardinality(Mine(m.branch, m.year)')
      <4>1. m.no = 1 + Cardinality(Mine(m.branch, m.year))
        BY <2>5, <3>2, NextFollows
      <4> QED BY <2>2, <4>1, MineFinite
    <3> QED BY <2>1, <2>5, <3>1, <3>2
  <2>6. RegNosCounted'
    BY <2>5 DEF RegNosCounted
  <2> QED BY <2>4, <2>6
<1>2. ASSUME NEW r \in Requests, InsertCase(r), row' # row
      PROVE  RegNosGapless' /\ RegNosCounted'
  <2>1. PICK c \in Cases \ Created : row' = [row EXCEPT ![c] = NewRow(c, req[r])]
    BY <1>2 DEF InsertCase
  <2>2. PICK n \in RegNos : n = req[r].regNo
    BY <1>2, RequestKinds DEF InsertCase, CreateRequests
  <2>3. /\ Created' = Created \union {c} /\ row'[c].regNo = n
        /\ \A d \in Created : row'[d] = row[d]
    <3>1. NewRow(c, req[r]).regNo = n /\ NewRow(c, req[r]) # NoRow
      BY <1>2, <2>2, NewRowType DEF NewRow, InsertCase
    <3> QED BY <2>1, <3>1 DEF TypeOK, Created
  <2>4. \A d \in Created : row[d].regNo # n
    BY <1>2, <2>2 DEF InsertCase, RegNoTaken
  <2>5. \A q \in Requests : req'[q].step = "create" => req'[q] = req[q]
    BY <1>2 DEF InsertCase, End, TypeOK, Idle
  <2>6. n.branch \in Branches /\ n.year \in Years /\ n.no \in Nat \ {0}
    BY DEF RegNos
  <2>7. \A d \in Created : row[d] \in Rows
    BY DEF TypeOK, Created
  <2> DEFINE mine == Mine(n.branch, n.year)
             most == Cardinality(mine)
  <2>8. Mine(n.branch, n.year)' = mine \union {c} /\ c \notin mine
    BY <2>1, <2>3 DEF Mine
  <2>9. \A b, y : ~(b = n.branch /\ y = n.year) => Mine(b, y)' = Mine(b, y)
    BY <2>3 DEF Mine
  <2>10. IsFiniteSet(mine) /\ most \in Nat
    BY MineFinite
  <2>11. Cardinality(Mine(n.branch, n.year)') = most + 1
    BY <2>8, <2>10, FS_AddElement
  <2>12. NumbersOf(mine) = 1..most
    BY <2>6 DEF RegNosGapless, Mine, NumbersOf
  <2>13. n.no \notin NumbersOf(mine)
    <3>1. ASSUME NEW d \in mine PROVE row[d].regNo.no # n.no
      <4>1. d \in Created /\ row[d].regNo.branch = n.branch /\ row[d].regNo.year = n.year
        BY <3>1 DEF Mine
      <4>2. row[d].regNo \in RegNos
        BY <2>7, <4>1 DEF Rows
      <4> QED BY <2>4, <4>1, <4>2 DEF RegNos
    <3> QED BY <3>1 DEF NumbersOf
  <2>14. n.no <= 1 + most
    BY <1>2, <2>2 DEF RegNosCounted, InsertCase
  <2>15. n.no = most + 1
    BY <2>6, <2>10, <2>12, <2>13, <2>14
  <2>16. NumbersOf(Mine(n.branch, n.year))' = NumbersOf(mine) \union {n.no}
    <3>1. \A d \in mine : row'[d] = row[d]
      BY <2>3 DEF Mine
    <3>2. NumbersOf(Mine(n.branch, n.year))'
            = {row'[d].regNo.no : d \in Mine(n.branch, n.year)'}
      BY DEF NumbersOf
    <3> HIDE DEF mine
    <3> QED BY <2>3, <2>8, <3>1, <3>2 DEF NumbersOf
  <2>17. RegNosGapless'
    <3>1. ASSUME NEW b \in Branches, NEW y \in Years
          PROVE  NumbersOf(Mine(b, y))' = 1..Cardinality(Mine(b, y)')
      <4>1. CASE b = n.branch /\ y = n.year
        <5> HIDE DEF mine, most
        <5>1. NumbersOf(Mine(b, y))' = (1..most) \union {most + 1}
          BY <2>12, <2>15, <2>16, <4>1
        <5>2. (1..most) \union {most + 1} = 1..(most + 1)
          BY <2>10
        <5> QED BY <2>11, <4>1, <5>1, <5>2
      <4>2. CASE ~(b = n.branch /\ y = n.year)
        <5>1. Mine(b, y)' = Mine(b, y) /\ \A d \in Mine(b, y) : row'[d] = row[d]
          BY <2>3, <2>9, <4>2 DEF Mine
        <5>2. NumbersOf(Mine(b, y))' = NumbersOf(Mine(b, y))
          BY <5>1 DEF NumbersOf
        <5> QED BY <5>1, <5>2 DEF RegNosGapless, Mine, NumbersOf
      <4> QED BY <4>1, <4>2
    <3> QED BY <3>1 DEF RegNosGapless, Mine, NumbersOf
  <2>18. \A b, y : Cardinality(Mine(b, y)) \in Nat /\ Cardinality(Mine(b, y)') \in Nat
                   /\ Cardinality(Mine(b, y)) <= Cardinality(Mine(b, y)')
    BY <2>9, <2>10, <2>11, MineFinite
  <2>19. RegNosCounted'
    <3>1. ASSUME NEW q \in Requests, NEW taken, req'[q].step = "create", req'[q].regNo = taken
          PROVE  taken.no <= 1 + Cardinality(Mine(taken.branch, taken.year)')
      <4>1. PICK m \in RegNos : m = req[q].regNo /\ req'[q].regNo = m
        BY <2>5, <3>1, RequestKinds DEF CreateRequests
      <4>2. m.no \in Nat /\ m.no <= 1 + Cardinality(Mine(m.branch, m.year))
        BY <2>5, <3>1, <4>1 DEF RegNosCounted, RegNos
      <4>3. taken = m
        BY <3>1, <4>1
      <4> QED BY <2>18, <4>2, <4>3
    <3> QED BY <3>1 DEF RegNosCounted
  <2> QED BY <2>17, <2>19
<1> QED BY <1>1, <1>2

\* The application numbers of a branch and year are 1, 2, 3... for any number of branches,
\* cases and requests, although counting and inserting are two steps (nextNumber).
THEOREM ApplicationsNumbered == Spec => []RegNosGapless
<1>1. Init => RegNosGapless /\ RegNosCounted
  <2>1. ASSUME Init PROVE Created = {} /\ \A r \in Requests : req[r].step = "idle"
    BY <2>1 DEF Init, Created, Idle
  <2>2. ASSUME Init PROVE RegNosCounted
    BY <2>1, <2>2 DEF RegNosCounted
  <2>3. ASSUME Init PROVE RegNosGapless
    <3>1. 1..Cardinality({}) = {}
      BY FS_EmptySet
    <3> QED BY <2>1, <2>3, <3>1 DEF RegNosGapless
  <2> QED BY <2>2, <2>3
<1>2. LifecycleInv /\ RegNosGapless /\ RegNosCounted /\ [Next]_vars
        => RegNosGapless' /\ RegNosCounted'
  BY RegNosStep DEF LifecycleInv
<1> QED BY <1>1, <1>2, LifecycleInductive, PTL DEF Spec

-----------------------------------------------------------------------------
(***************************************************************************)
(* What a request alone in flight may rely on: what it read is still so.   *)
(***************************************************************************)
Fresh(s) ==
  /\ s.step = "update" => row[s.case].status = "DRAFT"
  /\ s.step \in InFlightSteps => row[s.case].status = s.rule.from
  /\ s.step \in {"gate", "number"} =>
       /\ s.rule.from = "DRAFT"
       /\ s.numbered <=> Numbered(s.case)
       /\ s.reuse = SourceMfl(s.case)
  /\ s.step = "number" => ~Numbered(s.case)
  /\ s.step \in {"number", "commit"} /\ s.rule.from = "DRAFT" => row[s.case].filled

FreshReads == \A r \in Requests : Fresh(req[r])

NumberedCases == {c \in Cases : Numbered(c)}

\* Every number given is on a case: none is used up by a submit that ends early.
CounterCounts == globalNo = Cardinality(NumberedCases)

SerialInv == LifecycleInv /\ OneAtATime /\ FreshReads /\ CounterCounts /\ RepeatKeepsMfl

\* When a request acts, all others are at rest.
LEMMA OthersIdle ==
  ASSUME NEW r \in Requests, OneAtATime, OneAtATime', req[r] # Idle \/ req'[r] # Idle,
         \A q \in Requests \ {r} : req'[q] = req[q]
  PROVE  \A q \in Requests \ {r} : req[q] = Idle /\ req'[q] = Idle
BY DEF OneAtATime

\* A request at rest claims nothing.
LEMMA IdleFresh == Fresh(Idle) /\ Fresh(Idle)'
BY DEF Fresh, Idle, InFlightSteps

\* The rows tell who is numbered and what a repeat would reuse.
LEMMA SameRows ==
  ASSUME row' = row
  PROVE  /\ Created' = Created
         /\ \A c \in Cases : (Numbered(c)' <=> Numbered(c)) /\ SourceMfl(c)' = SourceMfl(c)
BY DEF Created, Numbered, SourceMfl

\* Every step leaves the requests with reads that are still so.
LEMMA FreshStep ==
  ASSUME TypeOK, ReferencesExist, OneAtATime, OneAtATime', FreshReads, Next
  PROVE  FreshReads'
<1> DEFINE AllIdle == \A q \in Requests : req'[q] = Idle
<1>1. ASSUME AllIdle PROVE FreshReads'
  BY <1>1, IdleFresh DEF FreshReads, Fresh, Idle, InFlightSteps
<1>2. CASE NewYear
  BY <1>2 DEF NewYear, FreshReads, Fresh, Numbered, Created, SourceMfl
<1>3. ASSUME NEW r \in Requests, Fresh(req[r])', req'[r] # Idle,
             \A q \in Requests \ {r} : req'[q] = req[q]
      PROVE  FreshReads'
  <2>1. ASSUME NEW q \in Requests PROVE Fresh(req[q])'
    <3>1. CASE q = r
      BY <1>3, <3>1
    <3>2. CASE q # r
      <4>1. req'[q].step = "idle"
        BY <1>3, <3>2, OthersIdle DEF Idle
      <4> QED BY <4>1 DEF Fresh, InFlightSteps
    <3> QED BY <3>1, <3>2
  <2> QED BY <2>1 DEF FreshReads
<1>4. ASSUME NEW r \in Requests, req[r] # Idle, req' = [req EXCEPT ![r] = Idle]
      PROVE  FreshReads'
  <2>1. req'[r] = Idle /\ \A q \in Requests \ {r} : req'[q] = req[q]
    BY <1>4 DEF TypeOK
  <2>2. AllIdle
    BY <1>4, <2>1, OthersIdle
  <2> QED BY <2>2, <1>1
<1>5. ASSUME NEW r \in Requests, NEW u \in Users,
             NEW source \in Cases \union {NoCase}, NEW filled \in BOOLEAN,
             CountForCreate(r, u, source, filled)
      PROVE  FreshReads'
  <2>1. req'[r].step = "create" /\ \A q \in Requests \ {r} : req'[q] = req[q]
    BY <1>5 DEF CountForCreate, Begin, TypeOK
  <2>2. Fresh(req[r])' /\ req'[r] # Idle
    BY <2>1 DEF Fresh, InFlightSteps, Idle
  <2> QED BY <2>1, <2>2, <1>3
<1>6. ASSUME NEW r \in Requests, NEW u \in Users, NEW c \in Cases, NEW filled \in BOOLEAN,
             CheckUpdate(r, u, c, filled)
      PROVE  FreshReads'
  <2>1. req'[r].step = "update" /\ req'[r].case = c /\ \A q \in Requests \ {r} : req'[q] = req[q]
    BY <1>6 DEF CheckUpdate, Begin, TypeOK
  <2>2. row'[c].status = "DRAFT"
    BY <1>6 DEF CheckUpdate
  <2>3. Fresh(req[r])' /\ req'[r] # Idle
    BY <2>1, <2>2 DEF Fresh, InFlightSteps, Idle
  <2> QED BY <2>1, <2>3, <1>3
<1>7. ASSUME NEW r \in Requests, NEW u \in Users, NEW c \in Cases,
             CheckArchive(r, u, c) \/ CheckRestore(r, u, c)
      PROVE  FreshReads'
  <2>1. req'[r].step \in {"archive", "restore"} /\ \A q \in Requests \ {r} : req'[q] = req[q]
    BY <1>7 DEF CheckArchive, CheckRestore, Begin, TypeOK
  <2>2. Fresh(req[r])' /\ req'[r] # Idle
    BY <2>1 DEF Fresh, InFlightSteps, Idle
  <2> QED BY <2>1, <2>2, <1>3
<1>8. ASSUME NEW r \in Requests, NEW u \in Users, NEW c \in Cases, NEW d \in Decisions,
             ReadForTransition(r, u, c, d)
      PROVE  FreshReads'
  <2>1. PICK rule \in Transitions, step \in {"gate", "commit"}, numbered \in BOOLEAN,
             reuse \in MflIds \union {NoMfl} : ReadEffect(r, c, rule, step, numbered, reuse)
    BY <1>8, ReadResult
  <2>2. PICK new : new = [step |-> step, case |-> c, rule |-> rule, numbered |-> numbered,
                          reuse |-> reuse]
    OBVIOUS
  <2>3. /\ new.step = step /\ new.case = c /\ new.rule = rule /\ new.numbered = numbered
        /\ new.reuse = reuse
    BY <2>2
  <2>4. req' = [req EXCEPT ![r] = new] /\ row' = row
    BY <2>1, <2>2 DEF ReadEffect
  <2>5. req'[r] = new /\ \A q \in Requests \ {r} : req'[q] = req[q]
    BY <2>4 DEF TypeOK
  <2>6. /\ step = "commit" <=> rule.from # "DRAFT"
        /\ rule.from = row[c].status
        /\ numbered <=> Numbered(c)
        /\ reuse = SourceMfl(c)
    BY <2>1 DEF ReadEffect
  <2>7. Fresh(new)'
    BY <2>3, <2>4, <2>6, SameRows DEF Fresh, InFlightSteps
  <2>8. new # Idle
    BY <2>3 DEF Idle
  <2> QED BY <2>5, <2>7, <2>8, <1>3
<1>9. ASSUME NEW r \in Requests,
             \/ InsertCase(r) \/ WriteUpdate(r) \/ WriteArchive(r) \/ FailSubmitGate(r)
             \/ CommitTransition(r) \/ AbortRequest(r)
      PROVE  FreshReads'
  <2>1. req[r] # Idle /\ req' = [req EXCEPT ![r] = Idle]
    BY <1>9 DEF InsertCase, WriteUpdate, WriteArchive, FailSubmitGate, CommitTransition,
                AbortRequest, End, Idle
  <2> QED BY <2>1, <1>4
<1>10. ASSUME NEW r \in Requests, PassSubmitGate(r)
       PROVE  FreshReads'
  <2>1. PICK s \in TransitionRequests : s = req[r] /\ s.step = "gate"
    BY <1>10, RequestKinds DEF PassSubmitGate
  <2>2. PICK step \in {"number", "commit"} :
          /\ step = AfterGate(s) /\ req' = [req EXCEPT ![r] = [s EXCEPT !.step = step]]
    BY <1>10, <2>1 DEF PassSubmitGate, Goto, AfterGate, TypeOK
  <2>3. PICK new : new = [s EXCEPT !.step = step]
    OBVIOUS
  <2>4. /\ new.step = step /\ new.case = s.case /\ new.rule = s.rule
        /\ new.numbered = s.numbered /\ new.reuse = s.reuse
    BY <2>3 DEF TransitionRequests
  <2>5. req'[r] = new /\ \A q \in Requests \ {r} : req'[q] = req[q]
    BY <2>2, <2>3 DEF TypeOK
  <2>6. Fresh(s) /\ row' = row /\ row[s.case].filled
    BY <1>10, <2>1 DEF FreshReads, PassSubmitGate
  <2>7. s.case \in Cases /\ (step = "number" <=> ~s.numbered)
    BY <2>2 DEF AfterGate, TransitionRequests
  <2>8. Fresh(new)'
    BY <2>1, <2>4, <2>6, <2>7, SameRows DEF Fresh, InFlightSteps
  <2>9. new # Idle
    BY <2>4 DEF Idle
  <2> QED BY <2>5, <2>8, <2>9, <1>3
<1>11. ASSUME NEW r \in Requests, AssignNumber(r)
       PROVE  FreshReads'
  <2>1. PICK s \in TransitionRequests : s = req[r] /\ s.step = "number"
    BY <1>11, AssignRow DEF AssignNumber
  <2>2. PICK new : new = [s EXCEPT !.step = "commit"]
    OBVIOUS
  <2>3. new.step = "commit" /\ new.case = s.case /\ new.rule = s.rule
    BY <2>2 DEF TransitionRequests
  <2>4. req'[r] = new /\ \A q \in Requests \ {r} : req'[q] = req[q]
    BY <1>11, <2>1, <2>2, AssignRow DEF TypeOK
  <2>5. PICK n \in Numbers : row' = [row EXCEPT ![s.case].number = n]
    BY <1>11, <2>1, AssignedNumber
  <2>6. s.case \in Created /\ row[s.case] \in Rows
    BY <1>11, <2>1, AssignRow DEF Created, TypeOK
  <2>7. row'[s.case] = [row[s.case] EXCEPT !.number = n]
    BY <2>5, <2>6 DEF TypeOK, Created
  <2>8. row'[s.case].status = row[s.case].status /\ row'[s.case].filled = row[s.case].filled
    BY <2>6, <2>7 DEF Rows
  <2>9. Fresh(new)'
    BY <2>1, <2>3, <2>8 DEF FreshReads, Fresh, InFlightSteps
  <2>10. new # Idle
    BY <2>3 DEF Idle
  <2> QED BY <2>4, <2>9, <2>10, <1>3
<1> QED
  BY <1>2, <1>5, <1>6, <1>7, <1>8, <1>9, <1>10, <1>11 DEF Next, Receive, Advance

-----------------------------------------------------------------------------
(***************************************************************************)
(* Numbers: each one taken from the counter lands on an unnumbered case.   *)
(***************************************************************************)

\* The source of a case is never rewritten.
LEMMA SourcesKept ==
  ASSUME TypeOK, ReferencesExist, [Next]_vars
  PROVE  \A c \in Created : row'[c].source = row[c].source
<1>1. CASE Harmless
  BY <1>1 DEF Harmless, Created
<1>2. ASSUME NEW r \in Requests, NEW c \in Cases \ Created, Inserts(r, c)
      PROVE  \A d \in Created : row'[d].source = row[d].source
  BY <1>2 DEF Inserts, TypeOK, Created
<1>3. CASE row' = row
  BY <1>3
<1>4. ASSUME NEW r \in Requests, AssignNumber(r)
      PROVE  \A d \in Created : row'[d].source = row[d].source
  <2>1. PICK n \in Numbers : row' = [row EXCEPT ![req[r].case].number = n]
    BY <1>4, AssignedNumber
  <2>2. PICK k \in Created : k = req[r].case
    BY <1>4, AssignRow
  <2>3. row[k] \in Rows /\ row' = [row EXCEPT ![k] = [row[k] EXCEPT !.number = n]]
    BY <2>1, <2>2 DEF TypeOK, Created
  <2> QED BY <2>3, ColumnWrites DEF SameIdentity, TypeOK, Created
<1>5. ASSUME NEW r \in Requests, CommitTransition(r)
      PROVE  \A d \in Created : row'[d].source = row[d].source
  <2>1. PICK k \in Created : k = req[r].case
    BY <1>5, CommitRow
  <2>2. PICK to \in Statuses : to = req[r].rule.to
    BY <1>5, CommitRow DEF TransitionRequests, RuleSet
  <2>3. row[k] \in Rows /\ row' = [row EXCEPT ![k] = [row[k] EXCEPT !.status = to]]
    BY <1>5, <2>1, <2>2 DEF TypeOK, Created, CommitTransition
  <2> QED BY <2>3, ColumnWrites DEF SameIdentity, TypeOK, Created
<1> QED BY <1>1, <1>2, <1>3, <1>4, <1>5, StepKinds DEF ReadEffect, PassSubmitGate

\* The case a request numbers had no number, and the count grows by it.
LEMMA CounterStep ==
  ASSUME TypeOK, ReferencesExist, FreshReads, CounterCounts, [Next]_vars
  PROVE  CounterCounts'
<1>1. NumberedCases' = NumberedCases /\ globalNo' = globalNo => CounterCounts'
  BY DEF CounterCounts
<1>2. CASE Harmless
  <2>1. NumberedCases' = NumberedCases
    BY <1>2 DEF Harmless, NumberedCases, Numbered, Created
  <2> QED BY <1>1, <1>2, <2>1 DEF Harmless
<1>3. ASSUME NEW r \in Requests, NEW c \in Cases \ Created, Inserts(r, c)
      PROVE  CounterCounts'
  <2>1. NumberedCases' = NumberedCases
    BY <1>3, InsertRow DEF NumberedCases, Numbered, RowsKept
  <2> QED BY <1>1, <1>3, <2>1 DEF Inserts
<1>4. CASE UNCHANGED <<row, globalNo>>
  <2>1. NumberedCases' = NumberedCases
    BY <1>4 DEF NumberedCases, Numbered, Created
  <2> QED BY <1>1, <1>4, <2>1
<1>5. ASSUME NEW r \in Requests, CommitTransition(r)
      PROVE  CounterCounts'
  <2>1. NumberedCases' = NumberedCases
    BY <1>5, CommitRow DEF NumberedCases, Numbered, RowsKept
  <2> QED BY <1>1, <1>5, <2>1 DEF CommitTransition
<1>6. ASSUME NEW r \in Requests, AssignNumber(r)
      PROVE  CounterCounts'
  <2>1. PICK k \in Created : k = req[r].case
    BY <1>6, AssignRow
  <2>2. k \notin NumberedCases
    BY <1>6, <2>1 DEF FreshReads, Fresh, NumberedCases, AssignNumber
  <2>3. NumberedCases' = NumberedCases \union {k}
    BY <1>6, <2>1, AssignRow, LifecycleAssumption
       DEF NumberedCases, Numbered, RowsKept, Created
  <2>4. IsFiniteSet(NumberedCases)
    BY FS_Subset, LifecycleAssumption DEF NumberedCases
  <2>5. Cardinality(NumberedCases') = Cardinality(NumberedCases) + 1
    BY <2>2, <2>3, <2>4, FS_AddElement
  <2> QED BY <1>6, <2>5, AssignRow DEF CounterCounts
<1> QED BY <1>2, <1>3, <1>4, <1>5, <1>6, StepKinds DEF ReadEffect, PassSubmitGate

\* A number given to a repeat case follows what its source carries by then.
LEMMA RepeatStep ==
  ASSUME TypeOK, ReferencesExist, FreshReads, NumbersIssued, RepeatKeepsMfl, [Next]_vars
  PROVE  RepeatKeepsMfl'
<1>0. \A c \in Created : row'[c].source = row[c].source
  BY SourcesKept
<1>1. \A c \in Created : row[c].source # NoCase => row[c].source \in Created
  BY DEF ReferencesExist
<1>2. ASSUME Created' = Created, \A c \in Created : row'[c].number = row[c].number
      PROVE  RepeatKeepsMfl'
  BY <1>0, <1>1, <1>2 DEF RepeatKeepsMfl, Numbered
<1>3. CASE Harmless
  BY <1>2, <1>3, HarmlessRow DEF RowsKept
<1>4. ASSUME NEW r \in Requests, NEW c \in Cases \ Created, Inserts(r, c)
      PROVE  RepeatKeepsMfl'
  BY <1>0, <1>1, <1>4, InsertRow DEF RepeatKeepsMfl, Numbered, RowsKept
<1>5. CASE row' = row
  BY <1>2, <1>5 DEF Created
<1>6. ASSUME NEW r \in Requests, CommitTransition(r)
      PROVE  RepeatKeepsMfl'
  BY <1>2, <1>6, CommitRow DEF RowsKept
<1>7. ASSUME NEW r \in Requests, AssignNumber(r)
      PROVE  RepeatKeepsMfl'
  <2>1. PICK k \in Created : k = req[r].case
    BY <1>7, AssignRow
  <2>2. PICK n \in Numbers : n = row'[k].number /\ n.global = globalNo + 1
    BY <1>7, <2>1, AssignRow
  <2>3. Created' = Created /\ RowsKept({k})
    BY <1>7, <2>1, AssignRow
  <2>4. ~Numbered(k) /\ req[r].reuse = SourceMfl(k)
    BY <1>7, <2>1 DEF FreshReads, Fresh, AssignNumber
  <2>5. \A c \in Created : Numbered(c) => /\ row[c].number.global \in Nat
                                          /\ row[c].number.global <= globalNo
                                          /\ row[c].number.mfl \in MflIds
    BY DEF NumbersIssued, Numbered, TypeOK, Rows, Numbers, Created
  <2>6. globalNo \in Nat
    BY DEF TypeOK
  <2>7. ASSUME NEW m \in MflIds, req[r].reuse = m
        PROVE  n.mfl = m
    <3>1. m # NoMfl
      BY LifecycleAssumption
    <3>2. row[k] \in Rows /\ row' = [row EXCEPT ![k].number =
                      [global |-> globalNo', mfl |-> m]]
      BY <1>7, <2>1, <2>7, <3>1 DEF AssignNumber, TypeOK, Created
    <3>3. row'[k].number = [global |-> globalNo', mfl |-> m]
      BY <3>2, <2>1 DEF TypeOK, Created, Rows
    <3> QED BY <2>2, <3>3
  <2>8. ASSUME NEW c \in Created, NEW d, Numbered(c)', row'[c].source = d, d # NoCase,
               Numbered(d)', row'[d].number.global < row'[c].number.global
        PROVE  row'[c].number.mfl = row'[d].number.mfl
    <3>1. d \in Created /\ d = row[c].source
      BY <1>0, <1>1, <2>8
    <3>2. CASE c = k
      <4>1. d # k
        BY <2>2, <2>8, <3>1, <3>2 DEF Numbers
      <4>2. row'[d].number = row[d].number /\ Numbered(d)
        BY <2>3, <2>8, <3>1, <4>1 DEF RowsKept, Numbered
      <4>3. req[r].reuse = row[d].number.mfl
        BY <2>4, <2>8, <3>1, <3>2, <4>2, <1>0, <2>1 DEF SourceMfl
      <4> QED BY <2>2, <2>5, <2>7, <3>1, <3>2, <4>2, <4>3
    <3>3. CASE c # k /\ d = k
      <4>1. row'[c].number = row[c].number /\ Numbered(c)
        BY <2>3, <2>8, <3>3 DEF RowsKept, Numbered
      <4> QED BY <2>2, <2>3, <2>5, <2>6, <2>8, <3>1, <3>3, <4>1 DEF Numbers
    <3>4. CASE c # k /\ d # k
      <4>1. row'[c].number = row[c].number /\ row'[d].number = row[d].number
        BY <2>3, <3>1, <3>4 DEF RowsKept
      <4>2. Numbered(c) /\ Numbered(d)
        BY <2>3, <2>8, <3>1, <4>1 DEF Numbered
      <4> QED BY <2>3, <2>8, <3>1, <4>1, <4>2 DEF RepeatKeepsMfl
    <3> QED BY <3>2, <3>3, <3>4
  <2> QED BY <2>3, <2>8 DEF RepeatKeepsMfl
<1> QED BY <1>3, <1>4, <1>5, <1>6, <1>7, StepKinds DEF ReadEffect, PassSubmitGate

\* Numbers taken and kept, reads still true: the invariant of one request at a time.
LEMMA SerialStep ==
  ASSUME SerialInv, [Next /\ OneAtATime']_vars
  PROVE  SerialInv'
<1>1. CASE UNCHANGED vars
  <2>1. FreshReads' /\ OneAtATime'
    BY <1>1 DEF vars, SerialInv, FreshReads, Fresh, OneAtATime, Numbered, Created, SourceMfl
  <2>2. LifecycleInv' /\ CounterCounts' /\ RepeatKeepsMfl'
    BY <1>1, LifecycleStep, CounterStep, RepeatStep DEF SerialInv, LifecycleInv
  <2> QED BY <2>1, <2>2 DEF SerialInv
<1>2. CASE Next /\ OneAtATime'
  BY <1>2, LifecycleStep, FreshStep, CounterStep, RepeatStep DEF SerialInv, LifecycleInv
<1> QED BY <1>1, <1>2

LEMMA SerialStart == Init => SerialInv
<1>1. Init => LifecycleInv
  BY LifecycleStart
<1> SUFFICES ASSUME Init PROVE SerialInv
  OBVIOUS
<1>2. Created = {} /\ NumberedCases = {}
  BY DEF Init, Created, NumberedCases, Numbered
<1>3. OneAtATime /\ FreshReads
  BY DEF Init, OneAtATime, FreshReads, Fresh, Idle, InFlightSteps
<1>4. CounterCounts /\ RepeatKeepsMfl
  BY <1>2, FS_EmptySet DEF CounterCounts, RepeatKeepsMfl, Init
<1> QED BY <1>1, <1>3, <1>4 DEF SerialInv

-----------------------------------------------------------------------------
(***************************************************************************)
(* The refinement: each step of a handler is a step of the ledger or none. *)
(***************************************************************************)

\* The ledger moves by the same table.
LEMMA SameTable ==
  /\ Ledger!Transitions = Transitions
  /\ Ledger!TerminalStatuses = TerminalStatuses
  /\ \A t \in Transitions : t.from \notin TerminalStatuses
BY DEF Ledger!Transitions, Ledger!TerminalStatuses, Ledger!Rule, Transitions, TerminalStatuses,
       Rule

\* A step that leaves what the ledger sees of every case is a stutter.
LEMMA SameLedger ==
  ASSUME \A c \in Cases :
           /\ row'[c] = NoRow <=> row[c] = NoRow
           /\ c \in Created => /\ row'[c].status = row[c].status
                               /\ row'[c].number = row[c].number
                               /\ row'[c].filled = row[c].filled
  PROVE  UNCHANGED Ledger!ledger
<1>1. Created' = Created
  BY DEF Created
<1>2. LedgerStatus' = LedgerStatus
  BY <1>1 DEF LedgerStatus
<1>3. LedgerContract' = LedgerContract
  BY <1>1 DEF LedgerContract, Numbered
<1>4. LedgerFilled' = LedgerFilled
  BY <1>1 DEF LedgerFilled
<1> QED BY <1>2, <1>3, <1>4 DEF Ledger!ledger

\* A step that changes what the ledger sees of one case alone.
LEMMA OneEntry ==
  ASSUME NEW k \in Cases, k \in Created', row'[k].filled \in BOOLEAN,
         \A c \in Cases \ {k} : row'[c] = row[c]
  PROVE  /\ LedgerStatus' = [LedgerStatus EXCEPT ![k] = row'[k].status]
         /\ LedgerContract' = [LedgerContract EXCEPT ![k] =
                                 IF Numbered(k)' THEN row'[k].number.global ELSE 0]
         /\ LedgerFilled' = [LedgerFilled EXCEPT ![k] = row'[k].filled]
<1>1. \A c \in Cases \ {k} : c \in Created' <=> c \in Created
  BY DEF Created
<1>2. LedgerStatus' = [LedgerStatus EXCEPT ![k] = row'[k].status]
  BY <1>1 DEF LedgerStatus
<1>3. LedgerContract' = [LedgerContract EXCEPT ![k] =
                           IF Numbered(k)' THEN row'[k].number.global ELSE 0]
  <2>1. \A c \in Cases \ {k} : Numbered(c)' <=> Numbered(c)
    BY <1>1 DEF Numbered
  <2> QED BY <2>1 DEF LedgerContract
<1>4. LedgerFilled' = [LedgerFilled EXCEPT ![k] = row'[k].filled]
  <2>1. (k \in Created' /\ row'[k].filled) = row'[k].filled
    OBVIOUS
  <2> QED BY <1>1, <2>1 DEF LedgerFilled
<1> QED BY <1>2, <1>3, <1>4

\* Opening a case: the insert of a row, unless its application number is taken.
LEMMA OpenStep ==
  ASSUME TypeOK, ReferencesExist, NEW r \in Requests, InsertCase(r), row' # row
  PROVE  \E k \in Cases : Ledger!Open(k)
<1>1. PICK k \in Cases \ Created : row' = [row EXCEPT ![k] = NewRow(k, req[r])]
  BY DEF InsertCase
<1>2. PICK x \in Rows : x = NewRow(k, req[r]) /\ x # NoRow /\ x.number = NoNumber /\ x.status = "DRAFT"
  BY NewRowType DEF InsertCase
<1>3. row'[k] = x /\ \A c \in Cases \ {k} : row'[c] = row[c]
  BY <1>1, <1>2 DEF TypeOK
<1>4. k \in Created' /\ row'[k].filled \in BOOLEAN /\ ~Numbered(k)'
  BY <1>2, <1>3 DEF Created, Rows, Numbered
<1>5. /\ LedgerStatus' = [LedgerStatus EXCEPT ![k] = "DRAFT"]
      /\ LedgerContract' = [LedgerContract EXCEPT ![k] = 0]
      /\ LedgerFilled' = [LedgerFilled EXCEPT ![k] = row'[k].filled]
  BY <1>2, <1>3, <1>4, OneEntry
<1>6. LedgerStatus[k] = "NONE" /\ LedgerContract[k] = 0
  BY DEF LedgerStatus, LedgerContract, Numbered
<1>7. LedgerContract' = LedgerContract
  BY <1>5, <1>6 DEF LedgerContract
<1> QED BY <1>4, <1>5, <1>6, <1>7 DEF Ledger!Open

\* Saving a draft: completeness turns over, or the ledger sees nothing.
LEMMA EditStep ==
  ASSUME TypeOK, ReferencesExist, FreshReads, NEW r \in Requests, WriteUpdate(r)
  PROVE  UNCHANGED Ledger!ledger \/ \E k \in Cases : Ledger!Edit(k)
<1>1. PICK k \in Created, f \in BOOLEAN : k = req[r].case /\ f = req[r].filled
  BY RequestKinds DEF WriteUpdate, UpdateRequests, ReferencesExist
<1>2. row[k] \in Rows /\ row' = [row EXCEPT ![k] = [row[k] EXCEPT !.filled = f]]
  BY <1>1 DEF WriteUpdate, TypeOK, Created
<1>3. PICK x \in Rows : x = [row[k] EXCEPT !.filled = f]
  BY <1>2, ColumnWrites DEF SameIdentity
<1>4. x.status = row[k].status /\ x.number = row[k].number /\ x.filled = f
  BY <1>2, <1>3 DEF Rows
<1>5. row'[k] = x /\ x # NoRow /\ \A c \in Cases \ {k} : row'[c] = row[c]
  BY <1>1, <1>2, <1>3, LifecycleAssumption DEF TypeOK, Created
<1>6. k \in Cases /\ k \in Created' /\ row[k] # NoRow
  BY <1>1, <1>5 DEF Created
<1>7. CASE f = row[k].filled
  <2>1. \A c \in Cases : row'[c] = row[c] \/ c = k
    BY <1>5
  <2> QED BY <1>4, <1>5, <1>6, <1>7, <2>1, SameLedger
<1>8. CASE f # row[k].filled
  <2>1. /\ LedgerStatus' = [LedgerStatus EXCEPT ![k] = row[k].status]
        /\ LedgerContract' = [LedgerContract EXCEPT ![k] =
                                 IF Numbered(k)' THEN row[k].number.global ELSE 0]
        /\ LedgerFilled' = [LedgerFilled EXCEPT ![k] = f]
    BY <1>4, <1>5, <1>6, OneEntry
  <2>2. LedgerStatus[k] = row[k].status /\ LedgerFilled[k] = row[k].filled
    BY <1>2, <1>6 DEF LedgerStatus, LedgerFilled, Created, Rows
  <2>3. row[k].status = "DRAFT"
    BY <1>1 DEF FreshReads, Fresh, WriteUpdate
  <2>4. LedgerStatus' = LedgerStatus
    BY <2>1, <2>2 DEF LedgerStatus
  <2>5. LedgerContract' = LedgerContract
    <3>1. Numbered(k)' <=> Numbered(k)
      BY <1>4, <1>5, <1>6 DEF Numbered, Created
    <3> QED BY <2>1, <3>1, <1>6 DEF LedgerContract
  <2>6. f = ~LedgerFilled[k]
    BY <1>2, <1>8, <2>2 DEF Rows
  <2> QED BY <1>6, <2>1, <2>2, <2>3, <2>4, <2>5, <2>6 DEF Ledger!Edit
<1> QED BY <1>7, <1>8

\* Numbering a draft that has none, above every number given before.
LEMMA NumberStep ==
  ASSUME TypeOK, ReferencesExist, FreshReads, CounterCounts, NumbersIssued,
         NEW r \in Requests, AssignNumber(r)
  PROVE  \E k \in Cases : Ledger!Number(k)
<1>1. PICK k \in Created : k = req[r].case
  BY AssignRow
<1>2. PICK n \in Numbers : /\ row' = [row EXCEPT ![k].number = n]
                           /\ n.global = globalNo + 1
  BY <1>1, AssignedNumber
<1>3. row[k] \in Rows /\ row' = [row EXCEPT ![k] = [row[k] EXCEPT !.number = n]]
  BY <1>1, <1>2 DEF TypeOK, Created
<1>4. PICK x \in Rows : x = [row[k] EXCEPT !.number = n]
  BY <1>3, ColumnWrites DEF SameIdentity
<1>5. x.status = row[k].status /\ x.number = n /\ x.filled = row[k].filled
  BY <1>3, <1>4 DEF Rows
<1>6. row'[k] = x /\ x # NoRow /\ \A c \in Cases \ {k} : row'[c] = row[c]
  BY <1>1, <1>3, <1>4, LifecycleAssumption DEF TypeOK, Created
<1>7. k \in Cases /\ k \in Created' /\ row[k] # NoRow /\ Numbered(k)' /\ x.filled \in BOOLEAN
  BY <1>1, <1>5, <1>6, LifecycleAssumption DEF Created, Numbered, Rows
<1>8. /\ LedgerStatus' = [LedgerStatus EXCEPT ![k] = row[k].status]
      /\ LedgerContract' = [LedgerContract EXCEPT ![k] = n.global]
      /\ LedgerFilled' = [LedgerFilled EXCEPT ![k] = row[k].filled]
  BY <1>5, <1>6, <1>7, OneEntry
<1>9. row[k].status = "DRAFT" /\ ~Numbered(k)
  BY <1>1 DEF FreshReads, Fresh, InFlightSteps, AssignNumber
<1>10. LedgerStatus[k] = "DRAFT" /\ LedgerContract[k] = 0 /\ LedgerFilled[k] = row[k].filled
  BY <1>3, <1>7, <1>9 DEF LedgerStatus, LedgerContract, LedgerFilled, Created, Rows
<1>11. LedgerStatus' = LedgerStatus /\ LedgerFilled' = LedgerFilled
  BY <1>8, <1>9, <1>10 DEF LedgerStatus, LedgerFilled
<1>12. n.global \in 1..Cardinality(Cases)
  <2>1. NumberedCases \subseteq Cases \ {k} /\ IsFiniteSet(Cases)
    BY <1>9, LifecycleAssumption DEF NumberedCases
  <2>2. IsFiniteSet(Cases \ {k}) /\ Cardinality(Cases \ {k}) = Cardinality(Cases) - 1
    BY <1>7, <2>1, FS_RemoveElement
  <2>3. Cardinality(NumberedCases) <= Cardinality(Cases \ {k})
    BY <2>1, <2>2, FS_Subset
  <2>4. Cardinality(Cases) \in Nat /\ globalNo \in Nat
    BY <2>1, FS_CardinalityType DEF TypeOK
  <2> QED BY <1>2, <2>2, <2>3, <2>4 DEF CounterCounts
<1>13. \A d \in Cases : LedgerContract[d] < n.global
  BY <1>2 DEF LedgerContract, NumbersIssued, Numbered, TypeOK, Created, Rows, Numbers
<1> QED BY <1>7, <1>8, <1>9, <1>10, <1>11, <1>12, <1>13 DEF Ledger!Number

\* Writing a status: the case still stands where the rule starts.
LEMMA MoveStep ==
  ASSUME TypeOK, ReferencesExist, FreshReads, RulesHeld, CommitKnowsNumber,
         NEW r \in Requests, CommitTransition(r)
  PROVE  \E k \in Cases : Ledger!Move(k)
<1>1. PICK k \in Created : k = req[r].case
  BY CommitRow
<1>2. PICK rule \in Transitions : rule = req[r].rule
  BY DEF RulesHeld, CommitTransition
<1>3. rule.to \in Statuses
  BY <1>2, TransitionsFacts DEF RuleSet
<1>4. row[k] \in Rows /\ row' = [row EXCEPT ![k] = [row[k] EXCEPT !.status = rule.to]]
  BY <1>1, <1>2 DEF CommitTransition, TypeOK, Created
<1>5. PICK x \in Rows : x = [row[k] EXCEPT !.status = rule.to]
  BY <1>3, <1>4, ColumnWrites DEF SameIdentity
<1>6. x.status = rule.to /\ x.number = row[k].number /\ x.filled = row[k].filled
  BY <1>4, <1>5 DEF Rows
<1>7. row'[k] = x /\ x # NoRow /\ \A c \in Cases \ {k} : row'[c] = row[c]
  BY <1>1, <1>4, <1>5, LifecycleAssumption DEF TypeOK, Created
<1>8. Numbered(k) /\ row[k].status = rule.from /\ (rule.from = "DRAFT" => row[k].filled)
  BY <1>1, <1>2 DEF CommitKnowsNumber, CommitTransition, FreshReads, Fresh, InFlightSteps
<1>9. k \in Cases /\ k \in Created' /\ row[k] # NoRow /\ Numbered(k)' /\ x.filled \in BOOLEAN
  BY <1>1, <1>6, <1>7, <1>8 DEF Created, Numbered, Rows
<1>10. /\ LedgerStatus' = [LedgerStatus EXCEPT ![k] = rule.to]
       /\ LedgerContract' = [LedgerContract EXCEPT ![k] = row[k].number.global]
       /\ LedgerFilled' = [LedgerFilled EXCEPT ![k] = row[k].filled]
  BY <1>6, <1>7, <1>9, OneEntry
<1>11. /\ LedgerStatus[k] = rule.from /\ LedgerContract[k] = row[k].number.global
       /\ LedgerFilled[k] = row[k].filled /\ row[k].number.global # 0
  BY <1>4, <1>8, <1>9
     DEF LedgerStatus, LedgerContract, LedgerFilled, Created, Rows, Numbers, Numbered
<1>12. LedgerContract' = LedgerContract /\ LedgerFilled' = LedgerFilled
  BY <1>10, <1>11 DEF LedgerContract, LedgerFilled
<1>13. rule \in Ledger!Transitions /\ rule.from \notin Ledger!TerminalStatuses
  BY SameTable
<1> QED BY <1>8, <1>9, <1>10, <1>11, <1>12, <1>13 DEF Ledger!Move

\* Every step of the handlers, one request at a time, is a step of the ledger or none.
LEMMA RefinesStep ==
  ASSUME SerialInv, [Next /\ OneAtATime']_vars
  PROVE  [Ledger!Next]_(Ledger!ledger)
<1> USE DEF SerialInv, LifecycleInv
<1>1. ASSUME row' = row PROVE UNCHANGED Ledger!ledger
  BY <1>1, SameLedger
<1>2. ASSUME NEW r \in Requests, InsertCase(r)
      PROVE  [Ledger!Next]_(Ledger!ledger)
  BY <1>1, <1>2, OpenStep DEF Ledger!Next
<1>3. ASSUME NEW r \in Requests, WriteUpdate(r)
      PROVE  [Ledger!Next]_(Ledger!ledger)
  BY <1>3, EditStep DEF Ledger!Next
<1>4. ASSUME NEW r \in Requests, AssignNumber(r)
      PROVE  [Ledger!Next]_(Ledger!ledger)
  BY <1>4, NumberStep DEF Ledger!Next
<1>5. ASSUME NEW r \in Requests, CommitTransition(r)
      PROVE  [Ledger!Next]_(Ledger!ledger)
  BY <1>5, MoveStep DEF Ledger!Next
<1>6. ASSUME NEW r \in Requests, WriteArchive(r)
      PROVE  UNCHANGED Ledger!ledger
  <2>1. PICK k \in Created : k = req[r].case
    BY <1>6 DEF WriteArchive, ReferencesExist
  <2>2. PICK b \in BOOLEAN : b = (req[r].step = "archive")
    BY Zenon
  <2>3. row[k] \in Rows /\ row' = [row EXCEPT ![k] = [row[k] EXCEPT !.deleted = b]]
    BY <1>6, <2>1, <2>2 DEF WriteArchive, TypeOK, Created
  <2>4. PICK x \in Rows : x = [row[k] EXCEPT !.deleted = b]
    BY <2>3, ColumnWrites DEF SameIdentity
  <2>5. x.status = row[k].status /\ x.number = row[k].number /\ x.filled = row[k].filled
    BY <2>3, <2>4 DEF Rows
  <2>6. row'[k] = x /\ x # NoRow /\ row[k] # NoRow /\ \A c \in Cases \ {k} : row'[c] = row[c]
    BY <2>1, <2>3, <2>4, LifecycleAssumption DEF TypeOK, Created
  <2> QED BY <2>5, <2>6, SameLedger
<1>7. ASSUME NEW r \in Requests,
             \/ Receive(r) \/ PassSubmitGate(r) \/ FailSubmitGate(r) \/ AbortRequest(r)
      PROVE  row' = row
  BY <1>7 DEF Receive, CountForCreate, CheckUpdate, CheckArchive, CheckRestore,
              ReadForTransition, PassSubmitGate, FailSubmitGate, AbortRequest
<1>8. NewYear \/ UNCHANGED vars => row' = row
  BY DEF NewYear, vars
<1> QED BY <1>1, <1>2, <1>3, <1>4, <1>5, <1>6, <1>7, <1>8 DEF Next, Advance

LEMMA RefinesStart == Init => Ledger!Init
<1> SUFFICES ASSUME Init PROVE Ledger!Init
  OBVIOUS
<1>1. Created = {}
  BY DEF Init, Created
<1> QED BY <1>1 DEF Ledger!Init, LedgerStatus, LedgerContract, LedgerFilled, Numbered

-----------------------------------------------------------------------------
\* One request at a time, for any number of cases, users and branches, what a request read
\* is still so when it writes.
THEOREM SerialInductive == SerialSpec => []SerialInv
BY SerialStart, SerialStep, PTL DEF SerialSpec

\* One request at a time the case service is the ledger: a case gets one number, higher than
\* all before, only a numbered and filled draft leaves the draft, and a closed case stays
\* closed (transition, applyUpdate, createCase).
THEOREM ServiceIsLedger == SerialSpec => Ledger!Spec
BY SerialInductive, RefinesStart, RefinesStep, PTL DEF SerialSpec, Ledger!Spec

\* A Qayta MFL case numbered after its source carries the source's identifier.
THEOREM RepeatsShareMfl == SerialSpec => []RepeatKeepsMfl
<1>1. SerialInv => RepeatKeepsMfl
  BY DEF SerialInv
<1> QED BY <1>1, SerialInductive, PTL

-----------------------------------------------------------------------------
\* The property the run of the case desk checks on two cases, for any set of cases: its
\* serial instance implements the ledger.
THEOREM DeskImplementsLedger == DeskSpec => SerialLedgerSpec
<1> DEFINE Inv == instance = "serial" => SerialInv
<1>1. Init /\ instance \in {"serial", "races"}
        => Inv /\ (instance = "serial" => Ledger!Init)
  BY SerialStart, RefinesStart
<1>2. Inv /\ [Next /\ InScope /\ UNCHANGED instance]_<<vars, instance>>
        => Inv' /\ [instance = "serial" => Ledger!Next]_(Ledger!ledger)
  <2> SUFFICES ASSUME Inv, [Next /\ InScope /\ UNCHANGED instance]_<<vars, instance>>,
                      instance = "serial"
               PROVE  SerialInv' /\ [Ledger!Next]_(Ledger!ledger)
    BY DEF InScope
  <2>1. [Next /\ OneAtATime']_vars
    BY DEF InScope
  <2> QED BY <2>1, SerialStep, RefinesStep
<1> QED BY <1>1, <1>2, PTL DEF DeskSpec, SerialLedgerSpec
================================================================================
