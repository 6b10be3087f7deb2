----------------------------- MODULE PagesProofs -----------------------------
(***************************************************************************)
(* Proofs about accounts, the signing dialog and the scanning page, for    *)
(* any people, branches, keys, scans and bounds.                           *)
(***************************************************************************)
EXTENDS MCPages, FiniteSetTheorems, TLAPS

-----------------------------------------------------------------------------
(***************************************************************************)
(* Types.                                                                  *)
(***************************************************************************)

Creates == [step : {"create"}, id : Users, form : Forms]

Targets == [step : {"target"}, id : Users, dto : Dtos, self : BOOLEAN]

Updates == [step : {"count", "update"}, id : Users, dto : Dtos]

BranchForms == [step : {"branch form"}, id : Branches, actor : Users, offered : SUBSET Users]

\* What a request keeps is told by its step.
LEMMA RequestKinds ==
  ASSUME TypeOK, NEW t \in Tabs
  PROVE  /\ req[t].step = "create" => req[t] \in Creates
         /\ req[t].step = "target" => req[t] \in Targets
         /\ req[t].step \in {"count", "update"} => req[t] \in Updates
         /\ req[t].step = "branch form" => req[t] \in BranchForms
<1>1. req[t] \in {Idle} \union Creates \union Targets \union Updates \union BranchForms
  BY DEF TypeOK, RequestStates, Creates, Targets, Updates, BranchForms
<1>2. Idle.step = "idle"
  BY DEF Idle
<1>3. req[t] \in Creates => req[t].step = "create"
  BY DEF Creates
<1>4. req[t] \in Targets => req[t].step = "target"
  BY DEF Targets
<1>5. req[t] \in Updates => req[t].step \in {"count", "update"}
  BY DEF Updates
<1>6. req[t] \in BranchForms => req[t].step = "branch form"
  BY DEF BranchForms
<1> QED BY <1>1, <1>2, <1>3, <1>4, <1>5, <1>6

\* Writing a row leaves a row.
LEMMA RowsWritten ==
  ASSUME NEW row \in Account
  PROVE  /\ \A f \in Forms : /\ Edited(row, f) \in Account
                                /\ Edited(row, f).role = f.role
                                /\ Edited(row, f).active = row.active
         /\ \A x \in BOOLEAN : [row EXCEPT !.active = x] \in Account
         /\ \A m \in SUBSET Branches : [row EXCEPT !.moderates = m] \in Account
<1>1. ASSUME NEW f \in Forms
      PROVE  /\ Edited(row, f) \in Account
             /\ Edited(row, f).role = f.role /\ Edited(row, f).active = row.active
  BY DEF Account, Forms, Edited
<1>2. ASSUME NEW x \in BOOLEAN PROVE [row EXCEPT !.active = x] \in Account
  BY DEF Account
<1>3. ASSUME NEW m \in SUBSET Branches PROVE [row EXCEPT !.moderates = m] \in Account
  BY DEF Account
<1> QED BY <1>1, <1>2, <1>3

\* An existing account has a row.
LEMMA RowsExist ==
  ASSUME TypeOK, NEW u \in Existing
  PROVE  u \in Users /\ account[u] \in Account
BY DEF TypeOK, Existing

\* A row stays one when a branch is added to it or taken from it.
LEMMA BranchRow ==
  ASSUME TypeOK, NEW u \in Existing, NEW b \in Branches, NEW ticked
  PROVE  [account[u] EXCEPT !.moderates =
            IF u \in ticked THEN @ \union {b} ELSE @ \ {b}] \in Account
<1> DEFINE m == IF u \in ticked THEN account[u].moderates \union {b}
                ELSE account[u].moderates \ {b}
<1>1. account[u] \in Account
  BY RowsExist
<1>2. account[u].moderates \in SUBSET Branches
  BY <1>1 DEF Account
<1>3. m \in SUBSET Branches
  BY <1>2
<1> HIDE DEF m
<1>4. [account[u] EXCEPT !.moderates = m] \in Account
  BY <1>1, <1>3, RowsWritten
<1> QED BY <1>4 DEF m

LEMMA InitTypes ==
  ASSUME AccountsAssumption, Init
  PROVE  TypeOK
<1>1. [role |-> "ADMIN", active |-> TRUE, branch |-> NoBranch, moderates |-> {}] \in Account
  BY DEF Account, Roles
<1>2. [role : {"MODERATOR"}, active : {TRUE}, branch : Branches, moderates : {{}}]
        \subseteq Account
  BY DEF Account, Roles
<1>3. account \in [Users -> Account \union {NoAccount}]
  BY <1>1, <1>2 DEF Init
<1>4. req \in [Tabs -> RequestStates]
  BY DEF Init, RequestStates
<1> QED BY <1>3, <1>4 DEF Init, TypeOK

\* Types are kept by what a request begins with.
LEMMA ReceiveTypes ==
  ASSUME TypeOK, NEW t \in Tabs, NEW actor \in Users, Receive(t, actor)
  PROVE  TypeOK'
<1> SUFFICES ASSUME NEW s \in RequestStates, Begin(t, actor, s)
             PROVE  TypeOK'
  <2>1. ASSUME NEW u \in Users, NEW f \in Forms, ReceiveCreate(t, actor, u, f)
        PROVE  TypeOK'
    <3>1. [step |-> "create", id |-> u, form |-> f] \in RequestStates
      BY DEF RequestStates
    <3> QED BY <2>1, <3>1 DEF ReceiveCreate
  <2>2. ASSUME NEW u \in Users, NEW dto \in Dtos, ReceiveUpdate(t, actor, u, dto)
        PROVE  TypeOK'
    <3>1. PICK b \in BOOLEAN : b = (Deactivating(dto) /\ u = actor)
      BY Zenon
    <3>2. /\ [step |-> "target", id |-> u, dto |-> dto, self |-> b] \in RequestStates
          /\ [step |-> "update", id |-> u, dto |-> dto] \in RequestStates
      BY DEF RequestStates
    <3> QED BY <2>2, <3>1, <3>2 DEF ReceiveUpdate
  <2>3. ASSUME NEW b \in Branches, OpenBranchForm(t, actor, b)
        PROVE  TypeOK'
    <3>1. [step |-> "branch form", id |-> b, actor |-> actor,
           offered |-> {u \in Existing : account[u].role = "MODERATOR"}] \in RequestStates
      BY DEF RequestStates, Existing
    <3> QED BY <2>3, <3>1 DEF OpenBranchForm
  <2>4. ASSUME NEW f \in Forms PROVE [kind |-> "edit", form |-> f] \in Dtos
    BY DEF Dtos
  <2>5. ASSUME NEW x \in BOOLEAN PROVE [kind |-> "toggle", active |-> x] \in Dtos
    BY DEF Dtos
  <2> QED BY <2>1, <2>2, <2>3, <2>4, <2>5 DEF Receive
<1> QED BY DEF Begin, Goto, TypeOK

\* Types are kept by the later steps of a request.
LEMMA AdvanceTypes ==
  ASSUME TypeOK, NEW t \in Tabs, Advance(t) \/ AbortRequest(t)
  PROVE  TypeOK'
<1>a. ASSUME End(t) PROVE req' \in [Tabs -> RequestStates]
  BY <1>a DEF End, Goto, RequestStates, TypeOK
<1>1. CASE InsertUser(t)
  <2>1. req[t].form \in Forms /\ req[t].id \in Users
    BY <1>1, RequestKinds DEF InsertUser, Creates
  <2>2. account' \in [Users -> Account \union {NoAccount}]
    <3> DEFINE f == req[t].form
               row == [role |-> f.role, active |-> TRUE,
                       branch |-> IF f.role = "MODERATOR" THEN NoBranch ELSE f.branch,
                       moderates |-> IF f.role = "MODERATOR" THEN f.moderates ELSE {}]
    <3>1. row \in Account
      BY <2>1 DEF Account, Forms
    <3>2. account' = IF req[t].id \in Existing THEN account
                     ELSE [account EXCEPT ![req[t].id] = row]
      BY <1>1 DEF InsertUser
    <3> HIDE DEF row
    <3> QED BY <3>1, <3>2 DEF TypeOK
  <2> QED BY <1>1, <1>a, <2>2 DEF InsertUser, TypeOK
<1>2. CASE ReadTarget(t)
  <2>1. req[t].id \in Users /\ req[t].dto \in Dtos
    BY <1>2, RequestKinds DEF ReadTarget, Targets
  <2>2. \A next \in {"count", "update"} :
          [step |-> next, id |-> req[t].id, dto |-> req[t].dto] \in RequestStates
    BY <2>1 DEF RequestStates
  <2>3. req' \in [Tabs -> RequestStates]
    BY <1>2, <1>a, <2>2 DEF ReadTarget, Goto, TypeOK
  <2> QED BY <1>2, <2>3 DEF ReadTarget, TypeOK
<1>3. CASE CountAdmins(t)
  <2>1. [req[t] EXCEPT !.step = "update"] \in RequestStates
    <3>1. req[t] \in Updates
      BY <1>3, RequestKinds DEF CountAdmins
    <3>2. [req[t] EXCEPT !.step = "update"] \in Updates
      BY <3>1 DEF Updates
    <3> QED BY <3>2 DEF Updates, RequestStates
  <2>2. req' \in [Tabs -> RequestStates]
    BY <1>3, <1>a, <2>1 DEF CountAdmins, Goto, TypeOK
  <2> QED BY <1>3, <2>2 DEF CountAdmins, TypeOK
<1>4. CASE UpdateUser(t)
  <2>1. req[t].id \in Users /\ req[t].dto \in Dtos
    BY <1>4, RequestKinds DEF UpdateUser, Updates
  <2>2. account' \in [Users -> Account \union {NoAccount}]
    <3> DEFINE id == req[t].id
               dto == req[t].dto
               row == account[id]
               new == IF dto.kind = "edit" THEN Edited(row, dto.form)
                      ELSE [row EXCEPT !.active = dto.active]
    <3>1. id \in Existing => new \in Account
      <4>1. dto.kind = "edit" => dto.form \in Forms
        BY <2>1 DEF Dtos
      <4>2. dto.kind # "edit" => dto.active \in BOOLEAN
        BY <2>1 DEF Dtos
      <4>3. id \in Existing => row \in Account
        BY RowsExist
      <4>4. CASE dto.kind = "edit"
        BY <4>1, <4>3, <4>4, RowsWritten
      <4>5. CASE dto.kind # "edit"
        BY <4>2, <4>3, <4>5, RowsWritten
      <4> QED BY <4>4, <4>5
    <3>2. account' = IF id \notin Existing THEN account ELSE [account EXCEPT ![id] = new]
      BY <1>4 DEF UpdateUser
    <3> HIDE DEF new
    <3> QED BY <3>1, <3>2 DEF TypeOK
  <2> QED BY <1>4, <1>a, <2>2 DEF UpdateUser, TypeOK
<1>5. CASE SaveBranch(t)
  <2>1. req[t].id \in Branches
    BY <1>5, RequestKinds DEF SaveBranch, BranchForms
  <2>2. PICK ticked \in SUBSET req[t].offered :
          account' = [u \in Users |->
            IF u \notin Existing THEN account[u]
            ELSE [account[u] EXCEPT !.moderates =
                    IF u \in ticked THEN @ \union {req[t].id} ELSE @ \ {req[t].id}]]
    BY <1>5 DEF SaveBranch
  <2>3. ASSUME NEW u \in Existing
        PROVE  [account[u] EXCEPT !.moderates =
                  IF u \in ticked THEN @ \union {req[t].id} ELSE @ \ {req[t].id}] \in Account
    BY <2>1, BranchRow
  <2>4. account' \in [Users -> Account \union {NoAccount}]
    BY <2>2, <2>3 DEF TypeOK
  <2> QED BY <1>5, <1>a, <2>4 DEF SaveBranch, TypeOK
<1>6. CASE AbortRequest(t)
  BY <1>6, <1>a DEF AbortRequest, TypeOK
<1> QED BY <1>1, <1>2, <1>3, <1>4, <1>5, <1>6 DEF Advance

LEMMA NextTypes ==
  ASSUME TypeOK, [Next]_vars
  PROVE  TypeOK'
<1>1. CASE UNCHANGED vars
  BY <1>1 DEF vars, TypeOK
<1> QED BY <1>1, ReceiveTypes, AdvanceTypes DEF Next

-----------------------------------------------------------------------------
(***************************************************************************)
(* The inductive invariant: with handlers that run one at a time, a save   *)
(* that would block or demote somebody has seen another administrator who  *)
(* can log in, and nothing has happened since.                             *)
(***************************************************************************)
Handling(r) == r.step \notin {"idle", "branch form"}

Risky(r) == r.step = "update" /\ (Deactivating(r.dto) \/ Demoting(r.dto))

AnotherAdmin(r) == \E v \in ActiveAdmins : v # r.id

LockOutInv ==
  alone =>
    /\ ActiveAdmins # {}
    /\ \A s, t \in Tabs : Handling(req[s]) /\ Handling(req[t]) => s = t
    /\ \A t \in Tabs : Risky(req[t]) => AnotherAdmin(req[t])

AccountsInv == TypeOK /\ LockOutInv

\* More than one active administrator: there is another one, whoever is meant.
LEMMA SpareLeavesAnother ==
  ASSUME IsFiniteSet(Users), Spare, NEW u
  PROVE  \E v \in ActiveAdmins : v # u
<1> SUFFICES ASSUME \A v \in ActiveAdmins : v = u PROVE FALSE
  OBVIOUS
<1>1. ActiveAdmins \in SUBSET {u}
  OBVIOUS
<1>2. IsFiniteSet({u}) /\ Cardinality({u}) = 1
  BY FS_Singleton
<1>3. Cardinality(ActiveAdmins) <= 1
  BY <1>1, <1>2, FS_Subset
<1>4. Cardinality(ActiveAdmins) \in Nat
  BY <1>1, <1>2, FS_Subset, FS_CardinalityType
<1> QED BY <1>3, <1>4 DEF Spare

\* Where nothing is written to the rows, only the record of the one request that
\* moved is to be looked at.
LEMMA RowsUntouched ==
  ASSUME TypeOK, LockOutInv, NEW t \in Tabs, NEW s, UNCHANGED <<alone, account>>,
         req' = [req EXCEPT ![t] = s],
         alone /\ Handling(s) => \A q \in Tabs \ {t} : ~Handling(req[q]),
         alone /\ Risky(s) => AnotherAdmin(s)
  PROVE  LockOutInv'
<1> SUFFICES ASSUME alone PROVE LockOutInv'
  BY DEF LockOutInv
<1>1. req'[t] = s /\ \A q \in Tabs \ {t} : req'[q] = req[q]
  BY DEF TypeOK
<1>2. ActiveAdmins' = ActiveAdmins
  BY DEF ActiveAdmins, Existing
<1>3. ActiveAdmins' # {}
  BY <1>2 DEF LockOutInv
<1>4. ASSUME NEW p \in Tabs, NEW q \in Tabs, Handling(req'[p]), Handling(req'[q])
      PROVE  p = q
  BY <1>1, <1>4 DEF LockOutInv, Handling
<1>5. ASSUME NEW q \in Tabs, Risky(req'[q]) PROVE \E v \in ActiveAdmins : v # req'[q].id
  BY <1>1, <1>5 DEF LockOutInv, AnotherAdmin
<1> QED BY <1>2, <1>3, <1>4, <1>5 DEF LockOutInv, Handling, Risky, AnotherAdmin

\* Where rows are written by a request that ends, the others are not to be handled
\* and an administrator has to remain.
LEMMA RowsWrittenLast ==
  ASSUME TypeOK, LockOutInv, NEW t \in Tabs, End(t), alone' = alone,
         alone => \A q \in Tabs \ {t} : ~Handling(req[q]),
         alone => ActiveAdmins' # {}
  PROVE  LockOutInv'
<1> SUFFICES ASSUME alone PROVE LockOutInv'
  BY DEF LockOutInv
<1>1. \A q \in Tabs : ~Handling(req'[q])
  BY DEF End, Goto, Idle, Handling, TypeOK
<1>2. \A q \in Tabs : ~Risky(req'[q])
  BY <1>1 DEF Handling, Risky
<1> QED BY <1>1, <1>2 DEF LockOutInv, Handling, Risky

LEMMA InitLockOut ==
  ASSUME AccountsAssumption, Init
  PROVE  LockOutInv
<1>1. Root \in ActiveAdmins
  <2>1. account[Root] = [role |-> "ADMIN", active |-> TRUE, branch |-> NoBranch, moderates |-> {}]
    BY DEF Init, AccountsAssumption
  <2>2. account[Root] \in Account
    BY <2>1 DEF Account, Roles
  <2>3. account[Root] # NoAccount
    BY <2>2 DEF AccountsAssumption
  <2> QED BY <2>1, <2>3 DEF ActiveAdmins, Existing, AccountsAssumption
<1>2. \A t \in Tabs : ~Handling(req[t]) /\ ~Risky(req[t])
  BY DEF Init, Idle, Handling, Risky
<1> QED BY <1>1, <1>2 DEF LockOutInv

LEMMA ReceiveLockOut ==
  ASSUME TypeOK, LockOutInv, NEW t \in Tabs, NEW actor \in Users, Receive(t, actor)
  PROVE  LockOutInv'
<1> SUFFICES ASSUME NEW s, Begin(t, actor, s), ~Risky(s)
             PROVE  LockOutInv'
  <2>1. ASSUME NEW u \in Users, NEW f \in Forms, ReceiveCreate(t, actor, u, f)
        PROVE  LockOutInv'
    BY <2>1 DEF ReceiveCreate, Risky
  <2>2. ASSUME NEW u \in Users, NEW dto, ReceiveUpdate(t, actor, u, dto)
        PROVE  LockOutInv'
    BY <2>2 DEF ReceiveUpdate, Risky
  <2>3. ASSUME NEW b \in Branches, OpenBranchForm(t, actor, b)
        PROVE  LockOutInv'
    <3>1. PICK s : /\ s = [step |-> "branch form", id |-> b, actor |-> actor,
                           offered |-> {u \in Existing : account[u].role = "MODERATOR"}]
      OBVIOUS
    <3> QED BY <2>3, <3>1 DEF OpenBranchForm, Risky
  <2> QED BY <2>1, <2>2, <2>3 DEF Receive
<1>1. alone => \A q \in Tabs \ {t} : ~Handling(req[q])
  BY DEF Begin, MayRun, Handling
<1> QED BY <1>1, RowsUntouched DEF Begin, Goto

LEMMA AdvanceLockOut ==
  ASSUME AccountsAssumption, TypeOK, LockOutInv, NEW t \in Tabs, Advance(t) \/ AbortRequest(t)
  PROVE  LockOutInv'
<1>a. ASSUME Handling(req[t]), alone PROVE \A q \in Tabs \ {t} : ~Handling(req[q])
  BY <1>a DEF LockOutInv
<1>b. ASSUME End(t), UNCHANGED <<alone, account>> PROVE LockOutInv'
  BY <1>b, RowsUntouched DEF End, Goto, Idle, Handling, Risky
<1>1. CASE InsertUser(t)
  <2>1. Handling(req[t])
    BY <1>1 DEF InsertUser, Handling
  <2>2. \A u \in Existing : account'[u] = account[u]
    BY <1>1 DEF InsertUser, TypeOK, Existing
  <2>3. ActiveAdmins \subseteq ActiveAdmins'
    BY <2>2 DEF ActiveAdmins, Existing
  <2>4. alone => ActiveAdmins' # {}
    BY <2>3 DEF LockOutInv
  <2> QED BY <1>1, <1>a, <2>1, <2>4, RowsWrittenLast DEF InsertUser
<1>2. CASE ReadTarget(t)
  <2>1. Handling(req[t]) /\ req[t].step = "target"
    BY <1>2 DEF ReadTarget, Handling
  <2>2. PICK s : s = [step |-> IF account[req[t].id].role = "ADMIN" THEN "count" ELSE "update",
                      id |-> req[t].id, dto |-> req[t].dto]
    OBVIOUS
  <2>3. CASE End(t)
    BY <1>2, <1>b, <2>3 DEF ReadTarget
  <2>4. CASE Goto(t, s)
    <3>1. alone /\ Risky(s) => AnotherAdmin(s)
      BY <2>2 DEF Risky, AnotherAdmin, LockOutInv, ActiveAdmins
    <3> QED BY <1>2, <1>a, <2>1, <2>4, <3>1, RowsUntouched DEF ReadTarget, Goto
  <2> QED BY <1>2, <2>2, <2>3, <2>4 DEF ReadTarget
<1>3. CASE CountAdmins(t)
  <2>1. Handling(req[t]) /\ req[t] \in Updates
    BY <1>3, RequestKinds DEF CountAdmins, Handling
  <2>2. PICK s : s = [req[t] EXCEPT !.step = "update"]
    OBVIOUS
  <2>3. CASE Spare
    <3>1. s.id = req[t].id
      BY <2>1, <2>2 DEF Updates
    <3>2. AnotherAdmin(s)
      BY <2>3, SpareLeavesAnother DEF AnotherAdmin, AccountsAssumption
    <3> QED BY <1>3, <1>a, <2>1, <2>2, <2>3, <3>2, RowsUntouched DEF CountAdmins, Goto
  <2>4. CASE ~Spare
    BY <1>3, <1>b, <2>4 DEF CountAdmins
  <2> QED BY <2>3, <2>4
<1>4. CASE UpdateUser(t)
  <2>1. Handling(req[t]) /\ req[t] \in Updates /\ req[t].step = "update"
    BY <1>4, RequestKinds DEF UpdateUser, Handling
  <2> DEFINE id == req[t].id
             dto == req[t].dto
             new == IF dto.kind = "edit" THEN Edited(account[id], dto.form)
                    ELSE [account[id] EXCEPT !.active = dto.active]
  <2>2. account' = IF id \notin Existing THEN account ELSE [account EXCEPT ![id] = new]
    BY <1>4 DEF UpdateUser
  <2>3. id \in Users /\ dto \in Dtos
    BY <2>1 DEF Updates
  <2>4. \A v \in Users : v # id => account'[v] = account[v]
    BY <2>2 DEF TypeOK
  <2>5. \A v \in ActiveAdmins : v # id => v \in ActiveAdmins'
    BY <2>4 DEF ActiveAdmins, Existing
  <2>6. ASSUME id \in ActiveAdmins, ~Risky(req[t]) PROVE id \in ActiveAdmins'
    <3>1. account[id] \in Account /\ id \in Existing
      BY <2>6, RowsExist DEF ActiveAdmins
    <3>2. new \in Account /\ new.role = "ADMIN" /\ new.active
      <4>1. CASE dto.kind = "edit"
        <5>1. dto.form \in Forms /\ dto.form.role = "ADMIN"
          BY <2>1, <2>3, <2>6, <4>1 DEF Risky, Demoting, Dtos
        <5> QED BY <2>6, <3>1, <4>1, <5>1, RowsWritten DEF ActiveAdmins
      <4>2. CASE dto.kind # "edit"
        <5>1. dto.active = TRUE
          BY <2>1, <2>3, <2>6, <4>2 DEF Risky, Deactivating, Dtos
        <5> QED BY <2>6, <3>1, <4>2, <5>1 DEF ActiveAdmins, Account
      <4> QED BY <4>1, <4>2
    <3> HIDE DEF new
    <3>3. account'[id] = new
      BY <2>2, <2>3, <3>1 DEF TypeOK
    <3> QED BY <2>3, <3>2, <3>3 DEF ActiveAdmins, Existing, AccountsAssumption
  <2>7. alone => ActiveAdmins' # {}
    <3>1. CASE Risky(req[t])
      BY <2>5, <3>1 DEF LockOutInv, AnotherAdmin
    <3>2. CASE ~Risky(req[t])
      BY <2>5, <2>6, <3>2 DEF LockOutInv
    <3> QED BY <3>1, <3>2
  <2> QED BY <1>4, <1>a, <2>1, <2>7, RowsWrittenLast DEF UpdateUser
<1>5. CASE SaveBranch(t)
  <2>1. alone => \A q \in Tabs \ {t} : ~Handling(req[q])
    BY <1>5 DEF SaveBranch, MayRun, Handling
  <2>2. PICK ticked \in SUBSET req[t].offered :
          account' = [u \in Users |->
            IF u \notin Existing THEN account[u]
            ELSE [account[u] EXCEPT !.moderates =
                    IF u \in ticked THEN @ \union {req[t].id} ELSE @ \ {req[t].id}]]
    BY <1>5 DEF SaveBranch
  <2>3. ASSUME NEW u \in ActiveAdmins PROVE u \in ActiveAdmins'
    <3>1. account[u] \in Account /\ u \in Users /\ u \in Existing
      BY RowsExist DEF ActiveAdmins
    <3>2. account'[u] = [account[u] EXCEPT !.moderates =
                           IF u \in ticked THEN @ \union {req[t].id} ELSE @ \ {req[t].id}]
      BY <2>2, <3>1
    <3>3. account'[u].role = account[u].role /\ account'[u].active = account[u].active
      BY <3>1, <3>2 DEF Account
    <3>4. account'[u] \in Account
      <4>1. req[t].id \in Branches
        BY <1>5, RequestKinds DEF SaveBranch, BranchForms
      <4> QED BY <3>1, <3>2, <4>1, BranchRow
    <3> QED BY <3>1, <3>3, <3>4 DEF ActiveAdmins, Existing, AccountsAssumption
  <2>4. alone => ActiveAdmins' # {}
    BY <2>3 DEF LockOutInv
  <2> QED BY <1>5, <2>1, <2>4, RowsWrittenLast DEF SaveBranch
<1>6. CASE AbortRequest(t)
  BY <1>6, <1>b DEF AbortRequest
<1> QED BY <1>1, <1>2, <1>3, <1>4, <1>5, <1>6 DEF Advance

-----------------------------------------------------------------------------
\* Every variable keeps its type, and the inductive invariant holds.
THEOREM AccountsInductive ==
  ASSUME AccountsAssumption
  PROVE  Spec => []AccountsInv
<1>1. Init => AccountsInv
  BY InitTypes, InitLockOut DEF AccountsInv
<1>2. AccountsInv /\ [Next]_vars => AccountsInv'
  <2> SUFFICES ASSUME AccountsInv, [Next]_vars PROVE AccountsInv'
    OBVIOUS
  <2>1. TypeOK'
    BY NextTypes DEF AccountsInv
  <2>2. CASE UNCHANGED vars
    BY <2>1, <2>2 DEF vars, AccountsInv, LockOutInv, ActiveAdmins, Existing, Handling, Risky,
                      AnotherAdmin
  <2>3. CASE Next
    BY <2>1, <2>3, ReceiveLockOut, AdvanceLockOut DEF Next, AccountsInv
  <2> QED BY <2>2, <2>3
<1> QED BY <1>1, <1>2, PTL DEF Spec

\* There is always an administrator who can log in, as long as handlers run one at
\* a time: neither the lock of the list, nor the edit form, nor a branch's form
\* takes the last one away (the guards of UsersService.update).
THEOREM AdminAlwaysRemains ==
  ASSUME AccountsAssumption
  PROVE  Spec => []AdminRemains
<1>1. AccountsInv => AdminRemains
  BY DEF AccountsInv, LockOutInv, AdminRemains
<1> QED BY <1>1, AccountsInductive, PTL

-----------------------------------------------------------------------------
(***************************************************************************)
(* The signing dialog.  An attempt that has no key of E-IMZO's yet says    *)
(* so, and every key E-IMZO holds is accounted for.                        *)
(***************************************************************************)
Numbers == D!Attempts \union {0}

TryTypes == [key : Keys \union {NoKey}, challenge : Numbers, keyId : Numbers]

ProbeTypes == [at : {"none", "requirement", "list"}, inn : BOOLEAN]

DialogTypes ==
  /\ program \in {"off", "denied", "on"}
  /\ windows \subseteq D!Attempts /\ unlocked \subseteq D!Attempts
  /\ unloading \subseteq D!Attempts /\ stray \subseteq D!Attempts
  /\ open \in BOOLEAN /\ required \in BOOLEAN
  /\ status \in {"checking", "not-running", "domain-denied", "ready"}
  /\ keys \subseteq Keys /\ alias \in Keys \union {NoKey}
  /\ probe \in [Probes -> ProbeTypes]
  /\ step \in {NoStep, "preparing", "unlocking", "signing", "saving"}
  /\ try \in TryTypes /\ tries \in Numbers
  /\ signed \in Keys \union {NoKey} /\ live \in Numbers /\ reports \subseteq Numbers

AttemptInv ==
  /\ step # NoStep => tries \in D!Attempts
  /\ step \in {NoStep, "preparing", "unlocking"} => try.keyId = 0

DialogInv == DialogTypes /\ AttemptInv /\ NoKeyForgotten /\ D!FirmKeySigned

LEMMA NoAttempt ==
  /\ D!NoTry \in TryTypes /\ D!NoTry.keyId = 0
  /\ 0 \notin D!Attempts /\ 0 \in Numbers
BY DEF D!NoTry, TryTypes, Numbers, D!Attempts

LEMMA InitDialog ==
  ASSUME D!Init
  PROVE  DialogInv
<1>1. D!Quiet \in ProbeTypes
  BY DEF D!Quiet, ProbeTypes
<1>2. DialogTypes /\ AttemptInv
  BY <1>1, NoAttempt DEF D!Init, DialogTypes, AttemptInv
<1> QED BY <1>2 DEF D!Init, DialogInv, NoKeyForgotten, D!NoKeyForgotten, D!FirmKeySigned

\* The picker probes and chooses; it touches no attempt and no key.
LEMMA PickerStep ==
  ASSUME D!DialogAssumption, DialogInv,
         \/ D!OpenDialog \/ D!Recheck \/ D!CloseDialog \/ D!ChooseKey
         \/ \E p \in Probes : D!GetRequirement(p) \/ D!ListKeys(p)
  PROVE  DialogInv'
<1>a. AttemptInv' /\ NoKeyForgotten' /\ D!FirmKeySigned'
  BY DEF DialogInv, AttemptInv, NoKeyForgotten, D!NoKeyForgotten, D!FirmKeySigned, D!OpenDialog,
         D!Recheck, D!CloseDialog, D!ChooseKey, D!GetRequirement, D!ListKeys, D!StartProbe,
         D!eimzo, D!server
<1>b. /\ UNCHANGED <<program, windows, unlocked, unloading, stray>>
      /\ UNCHANGED <<step, try, tries, signed, live, reports>>
  BY DEF D!OpenDialog, D!Recheck, D!CloseDialog, D!ChooseKey, D!GetRequirement, D!ListKeys,
         D!StartProbe, D!eimzo, D!server
<1> DEFINE Picked == /\ open' \in BOOLEAN /\ required' \in BOOLEAN
                     /\ status' \in {"checking", "not-running", "domain-denied", "ready"}
                     /\ keys' \subseteq Keys /\ alias' \in Keys \union {NoKey}
                     /\ probe' \in [Probes -> ProbeTypes]
<1>c. ASSUME D!StartProbe PROVE status' = "checking" /\ probe' \in [Probes -> ProbeTypes]
  BY <1>c DEF D!StartProbe, D!Quiet, DialogInv, DialogTypes, ProbeTypes
<1>1. ASSUME D!OpenDialog PROVE Picked
  BY <1>1, <1>c DEF D!OpenDialog, D!StartProbe, DialogInv, DialogTypes
<1>2. ASSUME D!Recheck PROVE Picked
  BY <1>2, <1>c DEF D!Recheck, D!StartProbe, DialogInv, DialogTypes
<1>3. ASSUME D!CloseDialog PROVE Picked
  BY <1>3 DEF D!CloseDialog, DialogInv, DialogTypes
<1>4. ASSUME D!ChooseKey PROVE Picked
  <2>1. alias' \in Keys
    BY <1>4 DEF D!ChooseKey, D!Usable, DialogInv, DialogTypes
  <2> QED BY <1>4, <2>1 DEF D!ChooseKey, DialogInv, DialogTypes
<1>5. ASSUME NEW p \in Probes, D!GetRequirement(p) PROVE Picked
  <2>1. PICK inn \in BOOLEAN : /\ required' = inn
                               /\ probe' = [probe EXCEPT ![p] = [at |-> "list", inn |-> inn]]
    BY <1>5 DEF D!GetRequirement
  <2>2. [at |-> "list", inn |-> inn] \in ProbeTypes
    BY DEF ProbeTypes
  <2>3. probe' \in [Probes -> ProbeTypes]
    BY <2>1, <2>2 DEF DialogInv, DialogTypes
  <2> QED BY <1>5, <2>1, <2>3 DEF D!GetRequirement, DialogInv, DialogTypes
<1>6. ASSUME NEW p \in Probes, D!ListKeys(p) PROVE Picked
  <2>1. probe' \in [Probes -> ProbeTypes]
    BY <1>6 DEF D!ListKeys, D!Quiet, DialogInv, DialogTypes, ProbeTypes
  <2>2. \/ UNCHANGED <<keys, alias>>
        \/ \E found \in SUBSET Keys : keys' = found /\ alias' \in Keys \union {NoKey}
    BY <1>6 DEF D!ListKeys, D!Usable
  <2> QED BY <1>6, <2>1, <2>2 DEF D!ListKeys, DialogInv, DialogTypes
<1>7. Picked
  BY <1>1, <1>2, <1>3, <1>4, <1>5, <1>6
<1> QED BY <1>a, <1>b, <1>7 DEF DialogInv, DialogTypes

\* Giving up: the failure is reported, and a key the attempt had is on its way back.
LEMMA GivenUp ==
  ASSUME DialogTypes, NEW challenge \in Numbers, D!GiveUp(challenge)
  PROVE  /\ step' = NoStep /\ try' \in TryTypes /\ try'.keyId = 0
         /\ reports' \subseteq Numbers /\ unloading' \subseteq D!Attempts
         /\ unloading \subseteq unloading'
         /\ try.keyId \in D!Attempts => try.keyId \in unloading'
<1>1. try.keyId \in Numbers
  BY DEF DialogTypes, TryTypes
<1>2. D!Unload(try.keyId) \subseteq D!Attempts
  BY <1>1 DEF D!Unload, Numbers
<1>3. try.keyId \in D!Attempts => try.keyId \in D!Unload(try.keyId)
  BY NoAttempt DEF D!Unload
<1> QED BY <1>2, <1>3, NoAttempt DEF D!GiveUp, DialogTypes

\* An attempt that is given up leaves no key behind.
LEMMA GiveUpSound ==
  ASSUME D!DialogAssumption, DialogInv, NEW challenge \in Numbers, D!GiveUp(challenge),
         UNCHANGED <<status, keys, alias, required, probe, program, unlocked, stray, tries>>,
         open' \in BOOLEAN, windows' \subseteq D!Attempts, signed' \in FirmKeys \union {NoKey},
         live' \in Numbers
  PROVE  DialogInv'
<1>1. DialogTypes'
  BY GivenUp DEF DialogInv, DialogTypes, D!DialogAssumption, Numbers, D!Attempts
<1>2. AttemptInv'
  BY GivenUp DEF DialogInv, AttemptInv
<1>3. NoKeyForgotten'
  BY GivenUp DEF DialogInv, DialogTypes, NoKeyForgotten, D!NoKeyForgotten
<1> QED BY <1>1, <1>2, <1>3 DEF DialogInv, D!FirmKeySigned

\* Of the steps of an attempt, the ones that go on.
LEMMA AttemptStep ==
  ASSUME D!DialogAssumption, DialogInv,
         D!Sign \/ D!Prepare \/ D!GiveUpWaiting \/ D!CreatePkcs7 \/ D!Commit
  PROVE  DialogInv'
<1>a. try.challenge \in Numbers /\ 0 \in Numbers /\ live \in Numbers
  BY NoAttempt DEF DialogInv, DialogTypes, TryTypes
<1>b. signed \in FirmKeys \union {NoKey}
  BY DEF DialogInv, D!FirmKeySigned
<1>c. NoStep \notin {"preparing", "unlocking", "signing", "saving"}
  BY DEF D!DialogAssumption
<1>1. CASE D!Sign
  <2>1. [D!NoTry EXCEPT !.key = alias] \in TryTypes
        /\ [D!NoTry EXCEPT !.key = alias].keyId = 0
    BY NoAttempt DEF D!NoTry, TryTypes, DialogInv, DialogTypes
  <2>2. tries' \in D!Attempts
    BY <1>1 DEF D!Sign, D!Attempts, DialogInv, DialogTypes, Numbers, D!DialogAssumption
  <2>3. DialogTypes' /\ AttemptInv'
    BY <1>1, <1>c, <2>1, <2>2 DEF D!Sign, D!picker, D!eimzo, D!server, DialogInv, DialogTypes,
       AttemptInv, Numbers
  <2>4. try.keyId = 0
    BY <1>1 DEF D!Sign, DialogInv, AttemptInv
  <2> QED BY <1>1, <2>3, <2>4, NoAttempt DEF D!Sign, D!eimzo, D!server, DialogInv, DialogTypes,
             NoKeyForgotten, D!NoKeyForgotten, D!FirmKeySigned
<1>2. CASE D!Prepare
  <2>1. tries \in D!Attempts /\ try.keyId = 0
    BY <1>2, <1>c DEF D!Prepare, DialogInv, AttemptInv
  <2>2. CASE D!GiveUp(0)
    <3>1. live' \in Numbers
      BY <1>2, <1>a, <2>1 DEF D!Prepare, Numbers
    <3>2. windows' \subseteq D!Attempts
      BY <1>2, <2>1 DEF D!Prepare, DialogInv, DialogTypes
    <3> QED BY <1>2, <1>a, <1>b, <2>2, <3>1, <3>2, GiveUpSound
            DEF D!Prepare, D!picker, DialogInv, DialogTypes
  <2>3. CASE /\ live' = tries /\ try' = [try EXCEPT !.challenge = tries]
             /\ step' = "unlocking" /\ windows' = windows \union {tries}
             /\ UNCHANGED <<reports, unloading>>
    <3>1. try' \in TryTypes /\ try'.keyId = 0
      BY <2>1, <2>3 DEF DialogInv, DialogTypes, TryTypes, Numbers
    <3>2. UNCHANGED <<open, status, keys, alias, required, probe, program, unlocked, stray, tries,
                      signed>>
      BY <1>2 DEF D!Prepare, D!picker
    <3>3. DialogTypes' /\ AttemptInv'
      BY <1>c, <2>1, <2>3, <3>1, <3>2 DEF DialogInv, DialogTypes, AttemptInv, Numbers
    <3> QED BY <2>1, <2>3, <3>1, <3>2, <3>3 DEF DialogInv, NoKeyForgotten, D!NoKeyForgotten,
               D!FirmKeySigned
  <2> QED BY <1>2, <2>2, <2>3 DEF D!Prepare
<1>3. CASE D!GiveUpWaiting
  BY <1>3, <1>a, <1>b, GiveUpSound DEF D!GiveUpWaiting, D!picker, DialogInv, DialogTypes
<1>4. CASE D!CreatePkcs7
  <2>1. CASE D!GiveUp(try.challenge)
    BY <1>4, <1>a, <1>b, <2>1, GiveUpSound DEF D!CreatePkcs7, D!picker, DialogInv, DialogTypes
  <2>2. CASE step' = "saving" /\ UNCHANGED <<try, reports, unloading>>
    BY <1>4, <1>c, <2>2 DEF D!CreatePkcs7, D!picker, DialogInv, DialogTypes, AttemptInv,
       NoKeyForgotten, D!NoKeyForgotten, D!FirmKeySigned
  <2> QED BY <1>4, <2>1, <2>2 DEF D!CreatePkcs7
<1>5. CASE D!Commit
  <2>a. /\ UNCHANGED <<status, keys, alias, required, probe, program, windows, unlocked, stray,
                       tries>>
        /\ open' \in BOOLEAN /\ windows' \subseteq D!Attempts
        /\ signed' \in FirmKeys \union {NoKey} /\ live' \in Numbers
    BY <1>5, <1>a, <1>b DEF D!Commit, D!Acceptable, DialogInv, DialogTypes
  <2>1. CASE D!GiveUp(try.challenge)
    BY <1>a, <2>a, <2>1, GiveUpSound
  <2>2. CASE /\ step' = NoStep /\ try' = D!NoTry
             /\ unloading' = unloading \union D!Unload(try.keyId) /\ UNCHANGED reports
    <3>1. D!GiveUp(try.challenge) = (/\ step' = NoStep /\ try' = D!NoTry
                                     /\ reports' = reports \union {try.challenge}
                                     /\ unloading' = unloading \union D!Unload(try.keyId))
      BY DEF D!GiveUp
    <3>2. try.keyId \in Numbers
      BY DEF DialogInv, DialogTypes, TryTypes
    <3>3. /\ unloading' \subseteq D!Attempts
          /\ try.keyId \in D!Attempts => try.keyId \in unloading'
      BY <2>2, <3>2, NoAttempt DEF D!Unload, Numbers, DialogInv, DialogTypes
    <3>4. DialogTypes' /\ AttemptInv'
      BY <2>a, <2>2, <3>3, NoAttempt DEF DialogInv, DialogTypes, AttemptInv, D!DialogAssumption
    <3> QED BY <2>a, <2>2, <3>3, <3>4 DEF DialogInv, DialogTypes, NoKeyForgotten,
               D!NoKeyForgotten, D!FirmKeySigned
  <2> QED BY <1>5, <2>1, <2>2 DEF D!Commit
<1> QED BY <1>1, <1>2, <1>3, <1>4, <1>5

\* What E-IMZO, its windows and the calls on their way do.
LEMMA ProgramStep ==
  ASSUME D!DialogAssumption, DialogInv,
         \/ D!StartEimzo
         \/ \E n \in D!Attempts : \/ D!TypePassword(n) \/ D!CancelPassword(n)
                                  \/ D!UnloadKey(n) \/ D!ExpireKey(n)
         \/ \E n \in Numbers : D!Report(n)
  PROVE  DialogInv'
<1>a. NoStep \notin {"preparing", "unlocking", "signing", "saving"}
  BY DEF D!DialogAssumption
<1>1. CASE D!StartEimzo
  BY <1>1 DEF D!StartEimzo, D!picker, D!server, DialogInv, DialogTypes, AttemptInv,
     NoKeyForgotten, D!NoKeyForgotten, D!FirmKeySigned
<1>2. ASSUME NEW n \in D!Attempts, D!TypePassword(n) PROVE DialogInv'
  <2>a. UNCHANGED <<open, status, keys, alias, required, probe, program, unloading, tries, signed,
                    live, reports>>
    BY <1>2 DEF D!TypePassword, D!picker, D!server
  <2>b. windows' \subseteq D!Attempts /\ unlocked' \subseteq D!Attempts
    BY <1>2 DEF D!TypePassword, DialogInv, DialogTypes
  <2>1. CASE step = "unlocking" /\ tries = n
    <3>1. step' = "signing" /\ try' = [try EXCEPT !.keyId = n] /\ UNCHANGED stray
      BY <1>2, <2>1 DEF D!TypePassword
    <3>2. try' \in TryTypes /\ try'.keyId = n /\ try.keyId = 0
      BY <2>1, <3>1 DEF DialogInv, DialogTypes, TryTypes, AttemptInv, Numbers
    <3>3. DialogTypes' /\ AttemptInv'
      BY <1>a, <2>a, <2>b, <2>1, <3>1, <3>2 DEF DialogInv, DialogTypes, AttemptInv
    <3> QED BY <1>2, <2>a, <3>1, <3>2, <3>3, NoAttempt DEF D!TypePassword, DialogInv, DialogTypes,
               NoKeyForgotten, D!NoKeyForgotten, D!FirmKeySigned
  <2>2. CASE ~(step = "unlocking" /\ tries = n)
    <3>1. stray' = stray \union {n} /\ UNCHANGED <<step, try>>
      BY <1>2, <2>2 DEF D!TypePassword
    <3> QED BY <1>2, <2>a, <2>b, <3>1 DEF D!TypePassword, DialogInv, DialogTypes, AttemptInv,
               NoKeyForgotten, D!NoKeyForgotten, D!FirmKeySigned
  <2> QED BY <2>1, <2>2
<1>3. ASSUME NEW n \in D!Attempts, D!CancelPassword(n) PROVE DialogInv'
  <2>a. UNCHANGED <<open, status, keys, alias, required, probe, program, unlocked, stray, tries,
                    signed, live>>
    BY <1>3 DEF D!CancelPassword, D!picker
  <2>b. windows' \subseteq D!Attempts
    BY <1>3 DEF D!CancelPassword, DialogInv, DialogTypes
  <2>1. CASE D!GiveUp(try.challenge)
    <3>1. try.challenge \in Numbers
      BY DEF DialogInv, DialogTypes, TryTypes
    <3> QED BY <2>a, <2>b, <2>1, <3>1, GiveUpSound DEF DialogInv, DialogTypes, D!FirmKeySigned
  <2>2. CASE UNCHANGED <<step, try, reports, unloading>>
    BY <2>a, <2>b, <2>2 DEF DialogInv, DialogTypes, AttemptInv, NoKeyForgotten, D!NoKeyForgotten,
       D!FirmKeySigned
  <2> QED BY <1>3, <2>1, <2>2 DEF D!CancelPassword
<1>4. ASSUME NEW n \in D!Attempts, D!UnloadKey(n) PROVE DialogInv'
  BY <1>4 DEF D!UnloadKey, D!picker, D!server, DialogInv, DialogTypes, AttemptInv,
     NoKeyForgotten, D!NoKeyForgotten, D!FirmKeySigned
<1>5. ASSUME NEW n \in D!Attempts, D!ExpireKey(n) PROVE DialogInv'
  BY <1>5 DEF D!ExpireKey, D!picker, D!server, DialogInv, DialogTypes, AttemptInv,
     NoKeyForgotten, D!NoKeyForgotten, D!FirmKeySigned
<1>6. ASSUME NEW n \in Numbers, D!Report(n) PROVE DialogInv'
  <2>1. live' \in Numbers /\ reports' \subseteq Numbers
    BY <1>6, NoAttempt DEF D!Report, DialogInv, DialogTypes
  <2> QED BY <1>6, <2>1 DEF D!Report, D!picker, D!eimzo, DialogInv, DialogTypes, AttemptInv,
             NoKeyForgotten, D!NoKeyForgotten, D!FirmKeySigned
<1> QED BY <1>1, <1>2, <1>3, <1>4, <1>5, <1>6

\* The invariant of the dialog holds in every reachable state, whatever the other
\* pages do.
THEOREM DialogInductive ==
  ASSUME D!DialogAssumption
  PROVE  PagesSpec => []DialogInv
<1>1. PagesInit => DialogInv
  BY InitDialog DEF PagesInit
<1>2. DialogInv /\ [PagesNext]_pagesVars => DialogInv'
  <2> SUFFICES ASSUME DialogInv, [PagesNext]_pagesVars PROVE DialogInv'
    OBVIOUS
  <2>1. D!Next \/ UNCHANGED dVars
    BY DEF PagesNext, pagesVars
  <2>2. CASE D!Next
    BY <2>2, PickerStep, AttemptStep, ProgramStep DEF D!Next, Numbers
  <2>3. CASE UNCHANGED dVars
    BY <2>3 DEF dVars, DialogInv, DialogTypes, AttemptInv, NoKeyForgotten, D!NoKeyForgotten,
       D!FirmKeySigned
  <2> QED BY <2>1, <2>2, <2>3
<1> QED BY <1>1, <1>2, PTL DEF PagesSpec

\* A key the director has unlocked is in use, on its way back to E-IMZO, or one whose
\* answer never reached the page, however often he signs, gives up and types late
\* (finally in sign, unloadKey), for any keys and number of attempts.
THEOREM KeysAreGivenBack ==
  ASSUME D!DialogAssumption
  PROVE  PagesSpec => []NoKeyForgotten
<1>1. DialogInv => NoKeyForgotten
  BY DEF DialogInv
<1> QED BY <1>1, DialogInductive, PTL

\* A filed signature is of the firm's key, whatever the picker offered; and the
\* variables of the dialog keep their types.
THEOREM FirmKeySigns ==
  ASSUME D!DialogAssumption
  PROVE  PagesSpec => [](D!FirmKeySigned /\ D!TypeOK)
<1>1. DialogInv => D!FirmKeySigned /\ D!TypeOK
  <2> SUFFICES ASSUME DialogInv PROVE D!TypeOK
    BY DEF DialogInv
  <2>1. try.key \in Keys \union {NoKey} /\ try.challenge \in Numbers /\ try.keyId \in Numbers
    BY DEF DialogInv, DialogTypes, TryTypes
  <2>2. \A p \in Probes : probe[p].at \in {"none", "requirement", "list"}
    BY DEF DialogInv, DialogTypes, ProbeTypes
  <2> QED BY <2>1, <2>2 DEF DialogInv, DialogTypes, D!TypeOK, Numbers
<1> QED BY <1>1, DialogInductive, PTL

-----------------------------------------------------------------------------
(***************************************************************************)
(* Scanning.  A scan that was answered changes no more; what is in the     *)
(* form, and what was kept, is a scan that was answered and trusted.       *)
(***************************************************************************)
Stages == {"unsent", "sent", "waiting", "running", "read", "failed", "answered"}

ScanTypes == [kind : {"PASSPORT", "ID", "TEX"}, images : SUBSET (1 .. MaxImages), stage : Stages,
              pass : Nat, best : Candidates \union {NoCandidate}]

Sides == /\ front \in 0 .. MaxImages /\ back \in 0 .. MaxImages /\ images \in 0 .. MaxImages

ScanningTypes ==
  /\ kind \in {"PASSPORT", "ID", "TEX"} /\ busy \in BOOLEAN /\ Sides
  /\ result \in Scans \union {0} /\ form \in Scans \union {0}
  /\ scan \in [Scans -> ScanTypes]
  /\ active \in Nat /\ queue \in Seq(Scans)

WaitersInv ==
  /\ \A i \in DOMAIN queue : scan[queue[i]].stage = "waiting"
  /\ \A i, j \in DOMAIN queue : queue[i] = queue[j] => i = j
  /\ queue # <<>> => active = MaxConcurrent

Settled(s) == s = 0 \/ (s \in Scans /\ scan[s].stage = "answered" /\ S!Trusted(s))

TrustInv == Settled(form) /\ \A k \in kept : Settled(k.scan)

ScanInv == ScanningTypes /\ WaitersInv /\ S!GateHolds /\ TrustInv

\* The scanning page counts as this module does.
LEMMA SameCount ==
  ASSUME NEW T
  PROVE  S!Cardinality(T) = Cardinality(T) /\ S!IsFiniteSet(T) = IsFiniteSet(T)
BY DEF S!Cardinality, Cardinality, S!IsFiniteSet, IsFiniteSet

LEMMA TwoElements ==
  ASSUME NEW T, IsFiniteSet(T), NEW x \in T, NEW y \in T, x # y
  PROVE  Cardinality(T) >= 2
<1>1. IsFiniteSet({x}) /\ Cardinality({x}) = 1
  BY FS_Singleton
<1>2. IsFiniteSet({x} \union {y}) /\ Cardinality({x} \union {y}) = 2
  BY <1>1, FS_AddElement
<1>3. {x} \union {y} \in SUBSET T
  OBVIOUS
<1>4. Cardinality({x} \union {y}) <= Cardinality(T)
  BY <1>3, FS_Subset
<1> QED BY <1>2, <1>4, FS_CardinalityType

\* Of a trusted reading two of the three digits agree that say who it is about: the
\* number, or one date, and the composite digit do not reach the threshold.
LEMMA TrustedDigits ==
  ASSUME S!ScanningAssumption, NEW c \in Candidates, S!Confidence(c) >= S!Trust
  PROVE  \E x, y \in c.digits \intersect {"number", "birth", "expiry"} : x # y
<1> DEFINE D3 == {"number", "birth", "expiry"}
           Of(digits, d) == IF d \in digits THEN S!CheckWeight[d] ELSE 0
<1>1. c.format \in {"TD1", "TD3"} /\ c.digits \subseteq S!Digits[c.format]
  BY DEF S!ScanningAssumption, S!Digits
<1>2. /\ S!CheckWeight["composite"] = 1 /\ S!CheckWeight["number"] = 3
      /\ S!CheckWeight["birth"] = 2 /\ S!CheckWeight["expiry"] = 2
      /\ S!CheckWeight["personal"] = 1
  BY DEF S!CheckWeight
<1>3. /\ S!Digits["TD1"] = {"number", "birth", "expiry", "composite"}
      /\ S!Digits["TD3"] = {"number", "birth", "expiry", "composite", "personal"}
  BY DEF S!Digits
<1>4. S!Weight(S!Digits["TD1"]) = 8 /\ S!Weight(S!Digits["TD3"]) = 9
  BY <1>2, <1>3 DEF S!Weight
<1>5. S!Weight(c.digits) \in Nat
  BY <1>2 DEF S!Weight
<1>6. (c.format = "TD1" => S!Weight(c.digits) >= 5) /\ (c.format = "TD3" => S!Weight(c.digits) >= 6)
  <2> DEFINE got == S!Weight(c.digits)
  <2> HIDE DEF got
  <2>1. c.format = "TD1" => (200 * got + 8) \div 16 >= 60
    BY <1>4 DEF S!Confidence, S!Trust, got
  <2>2. c.format = "TD3" => (200 * got + 9) \div 18 >= 60
    BY <1>4 DEF S!Confidence, S!Trust, got
  <2>3. got \in Nat
    BY <1>5 DEF got
  <2>4. c.format = "TD1" => got >= 5
    BY <2>1, <2>3
  <2>5. c.format = "TD3" => got >= 6
    BY <2>2, <2>3
  <2> QED BY <2>4, <2>5 DEF got
<1>7. c.format = "TD1" => "personal" \notin c.digits
  BY <1>1, <1>3
<1>8. ~("number" \in c.digits /\ "birth" \in c.digits)
      /\ ~("number" \in c.digits /\ "expiry" \in c.digits)
      /\ ~("birth" \in c.digits /\ "expiry" \in c.digits) => FALSE
  BY <1>1, <1>2, <1>6, <1>7 DEF S!Weight
<1> QED BY <1>8

LEMMA InitScan ==
  ASSUME S!ScanningAssumption, S!Init
  PROVE  ScanInv
<1>1. S!Unsent \in ScanTypes /\ S!Unsent.stage = "unsent"
  BY DEF S!Unsent, ScanTypes, Stages
<1>2. ScanningTypes
  <2>1. Sides
    BY DEF S!Init, Sides, S!ScanningAssumption
  <2>2. scan \in [Scans -> ScanTypes]
    BY <1>1 DEF S!Init
  <2>3. /\ kind = "PASSPORT" /\ busy = FALSE /\ result = 0 /\ form = 0 /\ active = 0
        /\ queue = <<>>
    BY DEF S!Init
  <2>4. queue \in Seq(Scans)
    BY <2>3
  <2> QED BY <2>1, <2>2, <2>3, <2>4 DEF ScanningTypes
<1>3. S!In("running") = {}
  BY <1>1 DEF S!In, S!Init
<1>4. S!GateHolds
  <2>1. active = 0 /\ Cardinality({}) = 0
    BY FS_EmptySet DEF S!Init
  <2>2. MaxConcurrent \in Nat
    BY DEF S!ScanningAssumption
  <2>3. active = Cardinality(S!In("running"))
    BY <1>3, <2>1
  <2>4. active <= MaxConcurrent
    BY <2>1, <2>2
  <2> QED BY <2>3, <2>4, SameCount DEF S!GateHolds
<1>5. WaitersInv
  BY DEF S!Init, WaitersInv
<1>6. TrustInv
  BY DEF S!Init, TrustInv, Settled
<1> QED BY <1>2, <1>4, <1>5, <1>6 DEF ScanInv

\* A settled scan stays settled while it is not touched.
LEMMA SettledStays ==
  ASSUME NEW s, Settled(s), scan[s].stage = "answered" => scan'[s] = scan[s]
  PROVE  Settled(s)'
BY DEF Settled, S!Trusted

LEMMA ScanNumbers ==
  ASSUME S!ScanningAssumption
  PROVE  IsFiniteSet(Scans) /\ 0 \notin Scans /\ Scans \subseteq Nat
<1>1. IsFiniteSet(Scans) /\ Scans = 1 .. Cardinality(Scans)
  BY SameCount DEF S!ScanningAssumption
<1>2. Cardinality(Scans) \in Nat
  BY <1>1, FS_CardinalityType
<1> QED BY <1>1, <1>2

\* One scan gets a new record: those that run are as many as before, one more or less.
LEMMA OneScan ==
  ASSUME S!ScanningAssumption, ScanInv, NEW s \in Scans, NEW r \in ScanTypes,
         scan' = [scan EXCEPT ![s] = r]
  PROVE  /\ scan' \in [Scans -> ScanTypes]
         /\ scan'[s] = r /\ \A q \in Scans \ {s} : scan'[q] = scan[q]
         /\ (scan[s].stage = "running") = (r.stage = "running") =>
              S!In("running")' = S!In("running")
         /\ scan[s].stage # "running" /\ r.stage = "running" =>
              Cardinality(S!In("running")') = active + 1
         /\ scan[s].stage = "running" /\ r.stage # "running" =>
              Cardinality(S!In("running")') = active - 1
<1>1. /\ scan' \in [Scans -> ScanTypes]
      /\ scan'[s] = r /\ \A q \in Scans \ {s} : scan'[q] = scan[q]
  BY DEF ScanInv, ScanningTypes
<1>2. (scan[s].stage = "running") = (r.stage = "running") => S!In("running")' = S!In("running")
  BY <1>1 DEF S!In
<1>3. S!In("running") \in SUBSET Scans /\ IsFiniteSet(S!In("running"))
      /\ Cardinality(S!In("running")) = active
  BY ScanNumbers, FS_Subset, SameCount DEF S!In, ScanInv, S!GateHolds
<1>4. scan[s].stage # "running" /\ r.stage = "running" =>
        S!In("running")' = S!In("running") \union {s} /\ s \notin S!In("running")
  BY <1>1 DEF S!In
<1>5. scan[s].stage = "running" /\ r.stage # "running" =>
        S!In("running")' = S!In("running") \ {s} /\ s \in S!In("running")
  BY <1>1 DEF S!In
<1> QED BY <1>1, <1>2, <1>3, <1>4, <1>5, FS_AddElement, FS_RemoveElement

\* Nothing a reading rests on is changed, and what is taken over was settled.
LEMMA TrustStays ==
  ASSUME ScanInv,
         \A s \in Scans : scan[s].stage = "answered" => scan'[s] = scan[s],
         Settled(form)' \/ form' \in {0, form},
         \A k \in kept' : k \in kept \/ k.scan = form
  PROVE  TrustInv'
<1>1. ASSUME NEW s, Settled(s) PROVE Settled(s)'
  BY <1>1 DEF Settled, S!Trusted
<1>2. Settled(0)'
  BY DEF Settled
<1>3. Settled(form)'
  <2>1. CASE form' = 0
    BY <1>2, <2>1 DEF Settled
  <2>2. CASE form' = form
    BY <1>1, <2>2 DEF ScanInv, TrustInv, Settled
  <2> QED BY <2>1, <2>2
<1>4. ASSUME NEW k \in kept' PROVE Settled(k.scan)'
  BY <1>1, <1>4 DEF ScanInv, TrustInv
<1> QED BY <1>3, <1>4 DEF TrustInv

\* Who waits goes on waiting while the gate is as it was.
LEMMA WaitersStay ==
  ASSUME ScanInv, UNCHANGED <<active, queue>>,
         \A s \in Scans : scan[s].stage = "waiting" => scan'[s] = scan[s]
  PROVE  WaitersInv'
<1>1. \A i \in DOMAIN queue : queue[i] \in Scans
  BY DEF ScanInv, ScanningTypes
<1> QED BY <1>1 DEF ScanInv, WaitersInv

LEMMA GateStays ==
  ASSUME ScanInv, UNCHANGED active, S!In("running")' = S!In("running")
  PROVE  S!GateHolds'
BY DEF ScanInv, S!GateHolds

\* The page: choosing images, going back and confirming.
LEMMA PageStep ==
  ASSUME S!ScanningAssumption, ScanInv,
         \/ \E k \in {"PASSPORT", "ID", "TEX"} : S!SwitchKind(k)
         \/ S!ChooseSide \/ S!Retry \/ S!Confirm
  PROVE  ScanInv'
<1>1. UNCHANGED <<scan, active, queue>> /\ form' \in {0, form}
  BY DEF S!SwitchKind, S!ChooseSide, S!Retry, S!Confirm, S!gate
<1>2. \A k \in kept' : k \in kept \/ k.scan = form
  <2>1. UNCHANGED kept \/ kept' = kept \union {[scan |-> form, images |-> S!Chosen]}
    BY DEF S!SwitchKind, S!ChooseSide, S!Retry, S!Confirm
  <2> QED BY <2>1
<1>3. TrustInv'
  BY <1>1, <1>2, TrustStays
<1>4. Sides'
  <2>1. CASE S!ChooseSide
    <3>1. images + 1 \in 0 .. MaxImages /\ images' = images + 1
          /\ front' \in {front, images + 1} /\ back' \in {back, images + 1}
      BY <2>1 DEF S!ChooseSide, ScanInv, ScanningTypes, Sides, S!ScanningAssumption
    <3> QED BY <3>1 DEF ScanInv, ScanningTypes, Sides
  <2>2. CASE UNCHANGED images /\ front' \in {front, 0} /\ back' \in {back, 0}
    BY <2>2 DEF ScanInv, ScanningTypes, Sides, S!ScanningAssumption
  <2> QED BY <2>1, <2>2 DEF S!SwitchKind, S!Retry, S!Confirm
<1>5. ScanningTypes'
  BY <1>1, <1>4 DEF S!SwitchKind, S!ChooseSide, S!Retry, S!Confirm, ScanInv, ScanningTypes
<1>6. S!GateHolds' /\ WaitersInv'
  BY <1>1, GateStays, WaitersStay DEF S!In
<1> QED BY <1>3, <1>5, <1>6 DEF ScanInv

\* A scan is sent with the images that were chosen.
LEMMA SendStep ==
  ASSUME S!ScanningAssumption, ScanInv, S!DropPassport \/ S!StartScan
  PROVE  ScanInv'
<1>1. PICK s \in Scans, used \in SUBSET (1 .. MaxImages) :
        /\ scan[s].stage = "unsent"
        /\ scan' = [scan EXCEPT ![s] = [scan[s] EXCEPT !.kind = kind, !.images = used,
                                                       !.stage = "sent"]]
  <2>1. images < MaxImages => images + 1 \in 1 .. MaxImages
    BY DEF ScanInv, ScanningTypes, Sides, S!ScanningAssumption
  <2>2. S!Chosen \in SUBSET (1 .. MaxImages)
    BY DEF S!Chosen, ScanInv, ScanningTypes, Sides, S!ScanningAssumption
  <2>3. PICK used \in SUBSET (1 .. MaxImages) : S!Send(used)
    <3>1. CASE S!DropPassport
      <4>1. {images + 1} \in SUBSET (1 .. MaxImages) /\ S!Send({images + 1})
        BY <2>1, <3>1 DEF S!DropPassport
      <4> QED BY <4>1
    <3>2. CASE S!StartScan
      BY <2>2, <3>2 DEF S!StartScan
    <3> QED BY <3>1, <3>2
  <2>4. PICK s \in Scans :
          /\ scan[s].stage = "unsent"
          /\ scan' = [scan EXCEPT ![s].kind = kind, ![s].images = used, ![s].stage = "sent"]
    BY <2>3 DEF S!Send, S!In
  <2>5. scan' = [scan EXCEPT ![s] = [scan[s] EXCEPT !.kind = kind, !.images = used,
                                                     !.stage = "sent"]]
    BY <2>4
  <2> QED BY <2>4, <2>5
<1> DEFINE r == [scan[s] EXCEPT !.kind = kind, !.images = used, !.stage = "sent"]
<1>2. r \in ScanTypes /\ r.stage = "sent"
  BY DEF ScanInv, ScanningTypes, ScanTypes, Stages
<1> HIDE DEF r
<1>3. UNCHANGED <<active, queue, form, kept, kind>> /\ busy' = TRUE
  BY DEF S!DropPassport, S!StartScan, S!Send, S!gate
<1>4. scan' = [scan EXCEPT ![s] = r]
  BY <1>1 DEF r
<1>5. \A q \in Scans : scan[q].stage # "unsent" => scan'[q] = scan[q]
  BY <1>1, <1>2, <1>4, OneScan
<1>6. WaitersInv' /\ S!GateHolds' /\ TrustInv'
  BY <1>1, <1>2, <1>3, <1>4, <1>5, OneScan, WaitersStay, GateStays, TrustStays
<1>7. Sides' /\ result' \in Scans \union {0}
  BY DEF S!DropPassport, S!StartScan, ScanInv, ScanningTypes, Sides, S!ScanningAssumption
<1>8. ScanningTypes'
  BY <1>2, <1>3, <1>4, <1>7, OneScan DEF ScanInv, ScanningTypes
<1> QED BY <1>6, <1>8 DEF ScanInv

\* An answer comes back; only a trusted one gets into the form.
LEMMA AnswerStep ==
  ASSUME S!ScanningAssumption, ScanInv, NEW s \in Scans, S!Answer(s)
  PROVE  ScanInv'
<1> DEFINE r == [scan[s] EXCEPT !.stage = "answered"]
<1>1. /\ r \in ScanTypes /\ r.stage = "answered" /\ r.kind = scan[s].kind /\ r.best = scan[s].best
  BY DEF ScanInv, ScanningTypes, ScanTypes, Stages
<1>2. scan' = [scan EXCEPT ![s] = r] /\ scan[s].stage \in {"read", "failed"}
  BY DEF S!Answer
<1> HIDE DEF r
<1>3. scan'[s] = r /\ \A q \in Scans \ {s} : scan'[q] = scan[q]
  BY <1>1, <1>2, OneScan
<1>4. UNCHANGED <<active, queue, kept, kind, front, back, images>>
  BY DEF S!Answer, S!gate
<1>5. Settled(form)' \/ form' \in {0, form}
  <2>1. form' \in {form, S!Prefilled(s)}
    BY DEF S!Answer
  <2>2. S!Trusted(s) => Settled(s)'
    BY <1>1, <1>3 DEF S!Trusted, Settled
  <2>3. CASE form' = s
    <3>1. S!Trusted(s) \/ form' = form
      BY <2>1, <2>3, ScanNumbers DEF S!Prefilled
    <3> QED BY <2>2, <2>3, <3>1 DEF Settled
  <2> QED BY <2>1, <2>3 DEF S!Prefilled
<1>6. TrustInv'
  BY <1>2, <1>3, <1>4, <1>5, TrustStays
<1>7. WaitersInv' /\ S!GateHolds'
  BY <1>1, <1>2, <1>3, <1>4, OneScan, WaitersStay, GateStays
<1>8. busy' \in BOOLEAN /\ result' \in Scans \union {0} /\ form' \in Scans \union {0}
  BY DEF S!Answer, S!Prefilled, ScanInv, ScanningTypes
<1>9. ScanningTypes'
  BY <1>1, <1>2, <1>4, <1>8, OneScan DEF ScanInv, ScanningTypes, Sides
<1> QED BY <1>6, <1>7, <1>9 DEF ScanInv

\* A request comes to the gate: it goes through or is the last to wait.
LEMMA ArriveStep ==
  ASSUME S!ScanningAssumption, ScanInv, NEW s \in Scans, S!Arrive(s)
  PROVE  ScanInv'
<1>1. PICK stage \in {"waiting", "running"} :
        /\ scan' = [scan EXCEPT ![s].stage = stage]
        /\ stage = "waiting" => active >= MaxConcurrent /\ queue' = Append(queue, s)
                                /\ UNCHANGED active
        /\ stage = "running" => active < MaxConcurrent /\ active' = active + 1 /\ UNCHANGED queue
  BY DEF S!Arrive, ScanInv, ScanningTypes, S!ScanningAssumption
<1> DEFINE r == [scan[s] EXCEPT !.stage = stage]
<1>2. r \in ScanTypes /\ r.stage = stage /\ scan[s].stage = "sent"
  BY DEF S!Arrive, ScanInv, ScanningTypes, ScanTypes, Stages
<1>3. scan' = [scan EXCEPT ![s] = r]
  BY <1>1
<1> HIDE DEF r
<1>4. scan'[s] = r /\ \A q \in Scans \ {s} : scan'[q] = scan[q]
  BY <1>2, <1>3, OneScan
<1>5. UNCHANGED <<kind, front, back, images, busy, result, form, kept>>
  BY DEF S!Arrive, S!page
<1>6. TrustInv'
  BY <1>2, <1>4, <1>5, TrustStays
<1>7. active \in Nat /\ MaxConcurrent \in Nat /\ active <= MaxConcurrent
      /\ active = Cardinality(S!In("running"))
  BY SameCount DEF ScanInv, ScanningTypes, S!GateHolds, S!ScanningAssumption
<1>8. CASE stage = "running"
  <2>1. S!GateHolds'
    <3>1. Cardinality(S!In("running")') = active + 1
      BY <1>2, <1>3, <1>8, OneScan
    <3>2. active' = active + 1 /\ active' <= MaxConcurrent
      BY <1>1, <1>7, <1>8
    <3> QED BY <3>1, <3>2, SameCount DEF S!GateHolds
  <2>2. WaitersInv'
    <3>1. queue = <<>> \/ active = MaxConcurrent
      BY DEF ScanInv, WaitersInv
    <3>2. queue' = <<>>
      BY <1>1, <1>7, <1>8, <3>1
    <3> QED BY <3>2 DEF WaitersInv
  <2>3. ScanningTypes'
    BY <1>1, <1>2, <1>3, <1>5, <1>8, OneScan DEF ScanInv, ScanningTypes, Sides
  <2> QED BY <1>6, <2>1, <2>2, <2>3 DEF ScanInv
<1>9. CASE stage = "waiting"
  <2>1. S!GateHolds'
    BY <1>1, <1>2, <1>3, <1>9, OneScan, GateStays
  <2>2. queue \in Seq(Scans) /\ queue' = Append(queue, s) /\ queue' \in Seq(Scans)
    <3>1. queue \in Seq(Scans) /\ queue' = Append(queue, s)
      BY <1>1, <1>9 DEF ScanInv, ScanningTypes
    <3> QED BY <3>1
  <2>3. /\ DOMAIN queue' = 1 .. Len(queue) + 1 /\ Len(queue) \in Nat
        /\ queue'[Len(queue) + 1] = s
        /\ \A i \in 1 .. Len(queue) : queue'[i] = queue[i] /\ queue[i] \in Scans
        /\ DOMAIN queue = 1 .. Len(queue)
    BY <2>2
  <2>4. \A i \in 1 .. Len(queue) : queue[i] # s
    BY <1>2, <2>3 DEF ScanInv, WaitersInv
  <2>5. \A i \in DOMAIN queue' : scan'[queue'[i]].stage = "waiting"
    BY <1>2, <1>4, <1>9, <2>3, <2>4 DEF ScanInv, WaitersInv
  <2>6. \A i, j \in DOMAIN queue' : queue'[i] = queue'[j] => i = j
    BY <2>3, <2>4 DEF ScanInv, WaitersInv
  <2>7. WaitersInv'
    BY <1>1, <1>7, <1>9, <2>5, <2>6 DEF WaitersInv
  <2>8. ScanningTypes'
    BY <1>1, <1>2, <1>3, <1>5, <1>9, <2>2, OneScan DEF ScanInv, ScanningTypes, Sides
  <2> QED BY <1>6, <2>1, <2>7, <2>8 DEF ScanInv
<1> QED BY <1>8, <1>9

\* A pass reads: only a scan that runs gets another candidate.
LEMMA ReadStep ==
  ASSUME S!ScanningAssumption, ScanInv, NEW s \in Scans, S!ReadPass(s)
  PROVE  ScanInv'
<1>1. PICK best \in {scan[s].best} \union {S!Considered(scan[s].best, c) : c \in Candidates} :
        scan' = [scan EXCEPT ![s].pass = @ + 1, ![s].best = best]
  BY DEF S!ReadPass
<1>2. best \in Candidates \union {NoCandidate}
  <2>1. scan[s].best \in Candidates \union {NoCandidate}
    BY DEF ScanInv, ScanningTypes, ScanTypes
  <2>2. \A c \in Candidates : S!Considered(scan[s].best, c) \in {scan[s].best, c}
    BY DEF S!Considered
  <2> QED BY <2>1, <2>2
<1> DEFINE n == scan[s].pass + 1
           r == [scan[s] EXCEPT !.pass = n, !.best = best]
<1>3. r \in ScanTypes /\ r.stage = "running" /\ scan[s].stage = "running"
  <2>1. scan[s] \in ScanTypes /\ scan[s].stage = "running" /\ n \in Nat
    BY DEF S!ReadPass, ScanInv, ScanningTypes, ScanTypes
  <2> HIDE DEF n
  <2> QED BY <1>2, <2>1 DEF ScanTypes
<1>4. scan' = [scan EXCEPT ![s] = r]
  BY <1>1
<1> HIDE DEF r
<1>5. scan'[s] = r /\ \A q \in Scans \ {s} : scan'[q] = scan[q]
  BY <1>3, <1>4, OneScan
<1>6. UNCHANGED <<kind, front, back, images, busy, result, form, kept, active, queue>>
  BY DEF S!ReadPass, S!page, S!gate
<1>7. TrustInv' /\ WaitersInv' /\ S!GateHolds'
  BY <1>3, <1>4, <1>5, <1>6, OneScan, TrustStays, WaitersStay, GateStays
<1>8. ScanningTypes'
  BY <1>3, <1>4, <1>6, OneScan DEF ScanInv, ScanningTypes, Sides
<1> QED BY <1>7, <1>8 DEF ScanInv

\* A scan ends, read or not: its place is free, or goes to the first that waits.
LEMMA LeaveStep ==
  ASSUME S!ScanningAssumption, ScanInv, NEW s \in Scans, NEW stage \in {"read", "failed"},
         scan[s].stage = "running", S!Leave(s, stage)
  PROVE  ScanInv'
<1> DEFINE r == [scan[s] EXCEPT !.stage = stage]
<1>1. r \in ScanTypes /\ r.stage = stage
  BY DEF ScanInv, ScanningTypes, ScanTypes, Stages
<1> HIDE DEF r
<1>2. UNCHANGED <<kind, front, back, images, busy, result, form, kept>>
  BY DEF S!Leave, S!page
<1>3. active \in Nat /\ MaxConcurrent \in Nat /\ active <= MaxConcurrent
      /\ active = Cardinality(S!In("running"))
  BY SameCount DEF ScanInv, ScanningTypes, S!GateHolds, S!ScanningAssumption
<1>4. CASE queue = <<>>
  <2>1. active' = active - 1 /\ UNCHANGED queue /\ scan' = [scan EXCEPT ![s] = r]
    BY <1>4 DEF S!Leave, S!Released, r, ScanInv, ScanningTypes
  <2>2. scan'[s] = r /\ \A q \in Scans \ {s} : scan'[q] = scan[q]
    BY <1>1, <2>1, OneScan
  <2>3. TrustInv'
    BY <1>2, <2>2, TrustStays
  <2>4. Cardinality(S!In("running")') = active - 1
    BY <1>1, <2>1, OneScan
  <2>5. active' <= MaxConcurrent
    BY <1>3, <2>1
  <2>6. S!GateHolds'
    BY <2>1, <2>4, <2>5, SameCount DEF S!GateHolds
  <2>7. WaitersInv'
    BY <1>4, <2>1 DEF WaitersInv
  <2>8. active - 1 \in Nat
    <3>1. IsFiniteSet(S!In("running")) /\ s \in S!In("running")
      BY ScanNumbers, FS_Subset DEF S!In
    <3>2. active # 0
      BY <1>3, <3>1, FS_EmptySet
    <3> QED BY <1>3, <3>2
  <2>9. ScanningTypes'
    BY <1>1, <1>2, <2>1, <2>8, OneScan DEF ScanInv, ScanningTypes, Sides
  <2> QED BY <2>3, <2>6, <2>7, <2>9 DEF ScanInv
<1>5. CASE queue # <<>>
  <2> DEFINE h == Head(queue)
             w == [scan[h] EXCEPT !.stage = "running"]
  <2>1. /\ queue \in Seq(Scans) /\ Len(queue) \in Nat \ {0} /\ DOMAIN queue = 1 .. Len(queue)
        /\ h = queue[1] /\ h \in Scans
        /\ Tail(queue) \in Seq(Scans) /\ DOMAIN Tail(queue) = 1 .. Len(queue) - 1
        /\ \A i \in 1 .. Len(queue) - 1 : Tail(queue)[i] = queue[i + 1] /\ queue[i + 1] \in Scans
    BY <1>5 DEF ScanInv, ScanningTypes
  <2>2. scan[h].stage = "waiting" /\ h # s
    BY <2>1 DEF ScanInv, WaitersInv
  <2>3. w \in ScanTypes /\ w.stage = "running"
    BY <2>1 DEF ScanInv, ScanningTypes, ScanTypes, Stages
  <2>4. active' = active /\ queue' = Tail(queue)
    BY <1>5 DEF S!Leave, S!Released
  <2>5. scan' = [q \in Scans |-> IF q = s THEN r ELSE IF q = h THEN w ELSE scan[q]]
    BY <1>5 DEF S!Leave, S!Released, r
  <2> HIDE DEF h, w
  <2>6. /\ scan' \in [Scans -> ScanTypes]
        /\ scan'[s] = r /\ scan'[h] = w /\ \A q \in Scans \ {s, h} : scan'[q] = scan[q]
    BY <1>1, <2>1, <2>2, <2>3, <2>5 DEF ScanInv, ScanningTypes
  <2>7. TrustInv'
    BY <1>2, <2>2, <2>6, TrustStays
  <2>8. S!In("running")' = (S!In("running") \ {s}) \union {h}
        /\ s \in S!In("running") /\ h \notin S!In("running")
    BY <1>1, <2>1, <2>2, <2>3, <2>6 DEF S!In
  <2>9. Cardinality(S!In("running")') = active
    <3>1. IsFiniteSet(S!In("running"))
      BY ScanNumbers, FS_Subset DEF S!In
    <3>2. IsFiniteSet(S!In("running") \ {s})
          /\ Cardinality(S!In("running") \ {s}) = active - 1
      BY <1>3, <2>8, <3>1, FS_RemoveElement
    <3>3. Cardinality((S!In("running") \ {s}) \union {h}) = (active - 1) + 1
      <4>1. h \notin S!In("running") \ {s}
        BY <2>8
      <4> QED BY <3>2, <4>1, FS_AddElement
    <3>4. (active - 1) + 1 = active
      BY <1>3
    <3> QED BY <2>8, <3>3, <3>4
  <2>10. S!GateHolds'
    BY <1>3, <2>4, <2>9, SameCount DEF S!GateHolds
  <2>11. \A i \in 1 .. Len(queue) - 1 : queue[i + 1] # h /\ queue[i + 1] # s
                                        /\ scan[queue[i + 1]].stage = "waiting"
    BY <2>1, <2>2 DEF ScanInv, WaitersInv
  <2>12. \A i \in DOMAIN queue' : scan'[queue'[i]].stage = "waiting"
    BY <2>1, <2>4, <2>6, <2>11
  <2>13. \A i, j \in DOMAIN queue' : queue'[i] = queue'[j] => i = j
    BY <2>1, <2>4 DEF ScanInv, WaitersInv
  <2>14. WaitersInv'
    BY <1>5, <2>4, <2>12, <2>13 DEF ScanInv, WaitersInv
  <2>15. ScanningTypes'
    BY <1>2, <2>1, <2>4, <2>6 DEF ScanInv, ScanningTypes, Sides
  <2> QED BY <2>7, <2>10, <2>14, <2>15 DEF ScanInv
<1> QED BY <1>4, <1>5

\* The invariant of the scanning page and of the gate holds in every reachable state.
THEOREM ScanningInductive ==
  ASSUME S!ScanningAssumption
  PROVE  PagesSpec => []ScanInv
<1>1. PagesInit => ScanInv
  BY InitScan DEF PagesInit
<1>2. ScanInv /\ [PagesNext]_pagesVars => ScanInv'
  <2> SUFFICES ASSUME ScanInv, [PagesNext]_pagesVars PROVE ScanInv'
    OBVIOUS
  <2>1. S!Next \/ UNCHANGED sVars
    BY DEF PagesNext, pagesVars
  <2>2. CASE S!Next
    <3>1. ASSUME NEW s \in Scans, S!EndScan(s) \/ S!ThrowScan(s) PROVE ScanInv'
      BY <3>1, LeaveStep DEF S!EndScan, S!ThrowScan
    <3> QED BY <2>2, <3>1, PageStep, SendStep, AnswerStep, ArriveStep, ReadStep DEF S!Next
  <2>3. CASE UNCHANGED sVars
    BY <2>3 DEF sVars, ScanInv, ScanningTypes, Sides, WaitersInv, S!GateHolds, S!In, TrustInv,
       Settled, S!Trusted
  <2> QED BY <2>1, <2>2, <2>3
<1> QED BY <1>1, <1>2, PTL DEF PagesSpec

\* Of a reading of a passport or card that gets into the form at least two of number,
\* birth date and expiry date agree with their check digits, whatever candidates the
\* recognition comes by and however scans overlap (CHECK_WEIGHT, TRUST).
THEOREM ReadingsAreVerified ==
  ASSUME S!ScanningAssumption
  PROVE  PagesSpec => []AppliedIsVerified
<1>1. ScanInv => AppliedIsVerified
  <2> SUFFICES ASSUME ScanInv, NEW k \in kept, k.scan # 0, scan[k.scan].kind # "TEX"
               PROVE  S!Cardinality(scan[k.scan].best.digits
                                      \intersect {"number", "birth", "expiry"}) >= 2
    BY DEF AppliedIsVerified, S!AppliedIsVerified
  <2> DEFINE c == scan[k.scan].best
             agreed == c.digits \intersect {"number", "birth", "expiry"}
  <2>1. Settled(k.scan)
    BY DEF ScanInv, TrustInv
  <2>2. k.scan \in Scans /\ c # NoCandidate /\ S!Confidence(c) >= S!Trust
    BY <2>1 DEF Settled, S!Trusted
  <2>3. c \in Candidates
    BY <2>2 DEF ScanInv, ScanningTypes, ScanTypes
  <2>4. PICK x \in agreed, y \in agreed : x # y
    BY <2>2, <2>3, TrustedDigits
  <2>5. IsFiniteSet({"number", "birth", "expiry"})
    <3>1. IsFiniteSet({"number"} \union {"birth"})
      BY FS_Singleton, FS_AddElement
    <3>2. IsFiniteSet(({"number"} \union {"birth"}) \union {"expiry"})
      BY <3>1, FS_AddElement
    <3>3. {"number", "birth", "expiry"} = ({"number"} \union {"birth"}) \union {"expiry"}
      OBVIOUS
    <3> QED BY <3>2, <3>3
  <2>6. IsFiniteSet(agreed)
    BY <2>5, FS_Subset
  <2>7. Cardinality(agreed) >= 2
    BY <2>4, <2>6, TwoElements
  <2> QED BY <2>7, SameCount
<1> QED BY <1>1, ScanningInductive, PTL

\* Never more scans run than the gate admits, and its counter is their number, however
\* they end (Semaphore.run), for any number of scans.
THEOREM GateAlwaysHolds ==
  ASSUME S!ScanningAssumption
  PROVE  PagesSpec => []S!GateHolds
<1>1. ScanInv => S!GateHolds
  BY DEF ScanInv
<1> QED BY <1>1, ScanningInductive, PTL
=============================================================================
