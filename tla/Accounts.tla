------------------------------- MODULE Accounts -------------------------------
(***************************************************************************)
(* Accounts, their roles and branches (apps/backend/src/users/,            *)
(* branches/ and auth/), as the pages of the administrator change them     *)
(* (packages/ui/src/pages/UsersPage.tsx, BranchesPage.tsx).                *)
(*                                                                         *)
(* A token only says who asks; JwtStrategy reads role and state of the     *)
(* account on every request.  The guard against locking everybody out      *)
(* reads the target, then counts the active administrators, and writes     *)
(* later, in three statements and no transaction.                          *)
(***************************************************************************)
EXTENDS Workflow, FiniteSets, Naturals

CONSTANTS
  Tabs,       \* browser tabs, each with one request at a time
  Users,      \* logins that exist or may be created
  Root,       \* the administrator of the seed
  Branches,   \* branches
  NoAccount,  \* a login that was not created yet
  NoBranch    \* branchId is null; no branch chosen in the form

VARIABLES
  alone,    \* handlers run one at a time (chosen once, never changed)
  account,  \* account[u]: the row of u
  req       \* req[t]: what the request of tab t keeps between two awaits

vars == <<alone, account, req>>

Account == [role : Roles, active : BOOLEAN, branch : Branches \union {NoBranch},
            moderates : SUBSET Branches]

AccountsAssumption ==
  /\ IsFiniteSet(Users) /\ Root \in Users
  /\ NoBranch \notin Branches
  /\ NoAccount \notin Account

Idle == [step |-> "idle"]

Existing == {u \in Users : account[u] # NoAccount}

ActiveAdmins == {u \in Existing : account[u].role = "ADMIN" /\ account[u].active}

\* The seed: an administrator, and a moderator with a branch of his own.
Init ==
  /\ alone \in BOOLEAN
  /\ \E moderator \in {NoAccount}
        \union [role : {"MODERATOR"}, active : {TRUE}, branch : Branches, moderates : {{}}] :
       account = [u \in Users |->
         IF u = Root
         THEN [role |-> "ADMIN", active |-> TRUE, branch |-> NoBranch, moderates |-> {}]
         ELSE moderator]
  /\ req = [t \in Tabs |-> Idle]

Goto(t, state) == req' = [req EXCEPT ![t] = state]

End(t) == Goto(t, Idle)

-----------------------------------------------------------------------------
\* JwtStrategy.validate and RolesGuard for @Roles(Role.ADMIN): u has a token.
Admitted(u) == u \in ActiveAdmins

\* A handler may start: always, or only when no other one runs.
MayRun(t) == alone => \A s \in Tabs \ {t} : req[s].step \in {"idle", "branch form"}

Begin(t, u, state) ==
  /\ req[t] = Idle
  /\ MayRun(t)
  /\ Admitted(u)
  /\ Goto(t, state)
  /\ UNCHANGED <<alone, account>>

(***************************************************************************)
(* The form of UsersPage: Save stays disabled for an operator without a    *)
(* branch and a moderator without branches (branchInvalid), and what the   *)
(* role does not have is sent empty.                                       *)
(***************************************************************************)
Forms ==
  {f \in [role : Roles, branch : Branches \union {NoBranch}, moderates : SUBSET Branches] :
     /\ f.role = "OPERATOR" <=> f.branch # NoBranch
     /\ f.role = "MODERATOR" <=> f.moderates # {}}

-----------------------------------------------------------------------------
(***************************************************************************)
(* POST users.                                                             *)
(***************************************************************************)
ReceiveCreate(t, actor, u, form) == Begin(t, actor, [step |-> "create", id |-> u, form |-> form])

\* After the password is hashed; a login in use throws.
InsertUser(t) ==
  /\ req[t].step = "create"
  /\ LET form == req[t].form
         row == [role |-> form.role, active |-> TRUE,
                 branch |-> IF form.role = "MODERATOR" THEN NoBranch ELSE form.branch,
                 moderates |-> IF form.role = "MODERATOR" THEN form.moderates ELSE {}]
     IN account' = IF req[t].id \in Existing THEN account
                   ELSE [account EXCEPT ![req[t].id] = row]
  /\ End(t)
  /\ UNCHANGED alone

-----------------------------------------------------------------------------
(***************************************************************************)
(* PUT users/:id, from the form ("edit": everything but isActive) or from  *)
(* the lock of the list ("toggle": isActive alone).                        *)
(***************************************************************************)
Deactivating(dto) == dto.kind = "toggle" /\ ~dto.active

Demoting(dto) == dto.kind = "edit" /\ dto.form.role # "ADMIN"

ReceiveUpdate(t, actor, id, dto) ==
  Begin(t, actor,
    IF Deactivating(dto) \/ Demoting(dto)
    THEN [step |-> "target", id |-> id, dto |-> dto,
          self |-> Deactivating(dto) /\ id = actor]
    ELSE [step |-> "update", id |-> id, dto |-> dto])

\* Not found, or oneself: refused.  An administrator: to be counted.
ReadTarget(t) ==
  /\ req[t].step = "target"
  /\ LET id == req[t].id
         next == IF account[id].role = "ADMIN" THEN "count" ELSE "update"
     IN  IF id \notin Existing \/ req[t].self THEN End(t)
         ELSE Goto(t, [step |-> next, id |-> id, dto |-> req[t].dto])
  /\ UNCHANGED <<alone, account>>

\* Mutant of Spare: an administrator who is blocked counts too.
SpareBlocked == Cardinality({u \in Existing : account[u].role = "ADMIN"}) > 1

\* activeAdmins > 1.
Spare == Cardinality(ActiveAdmins) > 1

CountAdmins(t) ==
  /\ req[t].step = "count"
  /\ IF Spare THEN Goto(t, [req[t] EXCEPT !.step = "update"]) ELSE End(t)
  /\ UNCHANGED <<alone, account>>

\* A moderator loses the personal branch, everybody else the moderated ones.
Edited(row, form) ==
  IF form.role = "MODERATOR"
  THEN [row EXCEPT !.role = form.role, !.branch = NoBranch, !.moderates = form.moderates]
  ELSE [row EXCEPT !.role = form.role, !.branch = form.branch, !.moderates = {}]

UpdateUser(t) ==
  /\ req[t].step = "update"
  /\ LET id == req[t].id
         dto == req[t].dto
         row == account[id]
     IN  account' = IF id \notin Existing THEN account
                    ELSE [account EXCEPT ![id] =
                            IF dto.kind = "edit" THEN Edited(row, dto.form)
                            ELSE [row EXCEPT !.active = dto.active]]
  /\ End(t)
  /\ UNCHANGED alone

-----------------------------------------------------------------------------
(***************************************************************************)
(* PUT branches/:id: the moderators of the branch are replaced.  The page  *)
(* offers the moderators of its list of users, and sends those it ticked,  *)
(* whatever happened to them since it read the list.                       *)
(***************************************************************************)
OpenBranchForm(t, actor, b) ==
  Begin(t, actor,
    [step |-> "branch form", id |-> b, actor |-> actor,
     offered |-> {u \in Existing : account[u].role = "MODERATOR"}])

SaveBranch(t) ==
  /\ req[t].step = "branch form"
  /\ MayRun(t)
  /\ Admitted(req[t].actor)
  /\ \E ticked \in SUBSET req[t].offered :
       account' = [u \in Users |->
         IF u \notin Existing THEN account[u]
         ELSE [account[u] EXCEPT !.moderates =
                 IF u \in ticked THEN @ \union {req[t].id} ELSE @ \ {req[t].id}]]
  /\ End(t)
  /\ UNCHANGED alone

\* A request dies half-way, or a form is closed.
AbortRequest(t) ==
  /\ req[t] # Idle
  /\ End(t)
  /\ UNCHANGED <<alone, account>>

-----------------------------------------------------------------------------
Receive(t, actor) ==
  \/ \E u \in Users, f \in Forms :
       \/ ReceiveCreate(t, actor, u, f)
       \/ ReceiveUpdate(t, actor, u, [kind |-> "edit", form |-> f])
  \/ \E u \in Users, a \in BOOLEAN :
       ReceiveUpdate(t, actor, u, [kind |-> "toggle", active |-> a])
  \/ \E b \in Branches : OpenBranchForm(t, actor, b)

Advance(t) ==
  \/ InsertUser(t)
  \/ ReadTarget(t) \/ CountAdmins(t) \/ UpdateUser(t)
  \/ SaveBranch(t)

Next == \E t \in Tabs : (\E u \in Users : Receive(t, u)) \/ Advance(t) \/ AbortRequest(t)

Spec == Init /\ [][Next]_vars

-----------------------------------------------------------------------------
Dtos == [kind : {"edit"}, form : Forms] \union [kind : {"toggle"}, active : BOOLEAN]

RequestStates ==
  {Idle}
  \union [step : {"create"}, id : Users, form : Forms]
  \union [step : {"target"}, id : Users, dto : Dtos, self : BOOLEAN]
  \union [step : {"count", "update"}, id : Users, dto : Dtos]
  \union [step : {"branch form"}, id : Branches, actor : Users, offered : SUBSET Users]

TypeOK ==
  /\ alone \in BOOLEAN
  /\ account \in [Users -> Account \union {NoAccount}]
  /\ req \in [Tabs -> RequestStates]

\* "Don't let an admin block themselves or the last active admin": as long as
\* handlers run one at a time there is always an administrator who can log in.
AdminRemains == alone => ActiveAdmins # {}
=============================================================================
