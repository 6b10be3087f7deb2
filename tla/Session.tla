------------------------------- MODULE Session -------------------------------
(***************************************************************************)
(* Who is signed in: the tabs of one portal in one browser, which share a  *)
(* token (packages/ui/src/lib/auth.tsx, RoleApp.tsx, LoginPage.tsx,        *)
(* ProfilePage.tsx and the token of packages/api-client), and the requests *)
(* of apps/backend/src/auth/ they make.                                    *)
(*                                                                         *)
(* A tab remembers the user its last answer named; a request carries the   *)
(* token of the moment it is made.  The two are kept together by nothing   *)
(* but the order in which login, /me, the profile and logout set them.     *)
(***************************************************************************)
EXTENDS Workflow, FiniteSets, Naturals

CONSTANTS
  Tabs,        \* tabs of the portal
  Accounts,    \* people with an account
  Portals,     \* the roles whose portal is opened (each has its own origin)
  Other,       \* a role somebody may be given instead
  Visited,     \* the pages that are visited, from the menu or by their address
  NoUser,      \* nobody: user, token and answer are null
  Registered,  \* the name an account has from the start
  NoName,      \* no profile form; a name that is not sent
  MaxChanges,  \* bound on what the administrator does to the accounts: MaxChanges[calm]
  MaxCalls     \* bound on the requests under way: MaxCalls[calm]

SessionAssumption ==
  /\ {NoUser, Registered, NoName} \intersect Accounts = {}
  /\ Portals \subseteq Roles /\ Other \in Roles \ Portals
  /\ {MaxChanges, MaxCalls} \subseteq [BOOLEAN -> Nat]

VARIABLES
  calm,     \* one tab only, and nobody signs out while a profile is saved
  portal,   \* the role this portal is for
  row,      \* row[u]: the account, [active, role, name]
  changes,  \* changes the administrator made
  token,    \* localStorage: the account the token was given to
  tab,      \* tab[t]: [loading, user, page, form]
  calls     \* requests under way, [tab, kind, as, name, answer]

vars == <<calm, portal, row, changes, token, tab, calls>>

Clerks == {"OPERATOR", "ADMIN"}

Pages == {"list", "new", "re-mfl", "check", "wizard", "case", "documents", "calculator",
          "chats", "analytics", "notifications", "profile", "branches", "users", "settings"}

AdminPages == {"branches", "users", "settings"}

ClerkPages == {"new", "re-mfl", "check", "wizard"}

\* The routes the Shell keeps from a role.
Hidden(role) ==
  (IF role = "ADMIN" THEN {} ELSE AdminPages) \union (IF role \in Clerks THEN {} ELSE ClerkPages)

\* Mutant of Routes: the route of Qayta MFL is there for every role.
RoutesOpen(role) == Pages \ (Hidden(role) \ {"re-mfl"})

Routes(role) == Pages \ Hidden(role)

\* navFor: the menu.
NavFor(role) ==
  {"list", "calculator", "chats", "analytics", "notifications"}
    \union (IF role \in Clerks THEN ClerkPages \ {"wizard"} ELSE {})
    \union (IF role = "ADMIN" THEN AdminPages ELSE {})

\* @Roles of what a page is for: the users and the branches with their moderators, the
\* settings, the search of repeat clients, and the creation of an application.
AdmittedTo(page) ==
  IF page \in AdminPages THEN {"ADMIN"} ELSE IF page \in ClerkPages THEN Clerks ELSE Roles

Empty(page) == [loading |-> FALSE, user |-> NoUser, page |-> page, form |-> NoName]

Init ==
  /\ calm \in BOOLEAN
  /\ portal \in Portals
  /\ row = [u \in Accounts |-> [active |-> TRUE, role |-> portal, name |-> Registered]]
  /\ changes = 0
  /\ token = NoUser
  /\ tab = [t \in Tabs |-> Empty("list")]
  /\ calls = {}

\* Gate and Shell.
Screen(view) ==
  IF view.loading THEN "splash"
  ELSE IF view.user = NoUser THEN "login"
  ELSE IF view.user.role # portal THEN "other portal"
  ELSE "pages"

\* The fields of the profile are filled when the page is mounted, and only then.
Mounted(was, view) ==
  LET shown(v) == Screen(v) = "pages" /\ v.page = "profile"
  IN  [view EXCEPT !.form = IF ~shown(view) THEN NoName
                            ELSE IF shown(was) THEN was.form
                            ELSE view.user.name]

Show(t, view) == tab' = [tab EXCEPT ![t] = Mounted(tab[t], view)]

\* The tab somebody sits at: of a calm browser the only one in use.
Used(t) ==
  calm => \A s \in Tabs \ {t} :
            tab[s] = Empty(tab[s].page) /\ ~\E c \in calls : c.tab = s

Send(t, kind, as, name) ==
  /\ Cardinality(calls) < MaxCalls[calm]
  /\ calls' = calls \union {[tab |-> t, kind |-> kind, as |-> as, name |-> name, answer |-> NoUser]}

Pending(t, kind) == \E c \in calls : c.tab = t /\ c.kind = kind

-----------------------------------------------------------------------------
(***************************************************************************)
(* The page is loaded or loaded again: what was under way is gone; a token *)
(* is shown to GET auth/me.                                                *)
(***************************************************************************)
Load(t) ==
  /\ Used(t)
  /\ LET others == {c \in calls : c.tab # t \/ c.kind = "left"}
         unserved == {c \in calls : c.tab = t /\ c.kind = "profile" /\ c.answer = NoUser}
         me == [tab |-> t, kind |-> "me", as |-> token, name |-> NoName, answer |-> NoUser]
     IN  calls' = others \union {[c EXCEPT !.kind = "left"] : c \in unserved}
                         \union (IF token = NoUser THEN {} ELSE {me})
  /\ Show(t, [Empty(tab[t].page) EXCEPT !.loading = token # NoUser])
  /\ UNCHANGED <<calm, portal, row, changes, token>>

\* LoginPage: one attempt at a time; a wrong password is one of the ways to fail.
Login(t, u) ==
  /\ Used(t)
  /\ Screen(tab[t]) = "login"
  /\ ~Pending(t, "login")
  /\ Send(t, "login", u, NoName)
  /\ UNCHANGED <<calm, portal, row, changes, token, tab>>

\* Mutant of Cleared: logout forgets the user and leaves the token.
ClearedHalf == token

\* setToken(null).
Cleared == NoUser

\* From the header, the profile, or the notice that this is another role's portal.
Logout(t) ==
  /\ tab[t].user # NoUser
  /\ calm => ~Pending(t, "profile")
  /\ token' = Cleared
  /\ Show(t, [tab[t] EXCEPT !.user = NoUser])
  /\ UNCHANGED <<calm, portal, row, changes, calls>>

\* A menu entry, a link of a page or a typed address; what has no route leads to the list.
Visit(t, page) ==
  /\ Screen(tab[t]) = "pages"
  /\ page # tab[t].page
  /\ Show(t, [tab[t] EXCEPT !.page = IF page \in Routes(portal) THEN page ELSE "list"])
  /\ UNCHANGED <<calm, portal, row, changes, token, calls>>

\* A typed name stands for the person the page says is typing.
TypeName(t) ==
  /\ tab[t].form # NoName
  /\ tab' = [tab EXCEPT ![t].form = tab[t].user.id]
  /\ UNCHANGED <<calm, portal, row, changes, token, calls>>

\* Save needs a change; a picture is sent as soon as it is chosen.
SaveProfile(t) ==
  /\ tab[t].form # NoName
  /\ ~Pending(t, "profile")
  /\ \E name \in {tab[t].form, NoName} \ {tab[t].user.name} : Send(t, "profile", token, name)
  /\ UNCHANGED <<calm, portal, row, changes, token, tab>>

-----------------------------------------------------------------------------
\* JwtStrategy.validate, and login for the account whose password was typed.
Validated(u) == u # NoUser /\ row[u].active

AuthUser(u) == [id |-> u, role |-> row[u].role, name |-> row[u].name]

\* POST auth/login, GET auth/me, PUT auth/me and POST auth/me/avatar.
Serve(c) ==
  /\ c.answer = NoUser
  /\ Validated(c.as)
  /\ row' = IF c.name = NoName THEN row ELSE [row EXCEPT ![c.as].name = c.name]
  /\ calls' = (calls \ {c})
       \union (IF c.kind = "left" THEN {} ELSE {[c EXCEPT !.answer = AuthUser(c.as)']})
  /\ UNCHANGED <<calm, portal, changes, token, tab>>

\* login stores the token before LoginPage compares the role; the others only show the user.
Answered(c) ==
  /\ c.answer # NoUser
  /\ token' = IF c.kind = "login" THEN c.as ELSE token
  /\ Show(c.tab, [tab[c.tab] EXCEPT !.loading = IF c.kind = "me" THEN FALSE ELSE @,
                                    !.user = c.answer])
  /\ calls' = calls \ {c}
  /\ UNCHANGED <<calm, portal, row, changes>>

\* Mutant of AfterFailure: a /me that fails leaves the token for the next load.
AfterFailureKept(kind) == token

\* Only the first /me takes the token away, whatever made it fail.
AfterFailure(kind) == IF kind = "me" THEN NoUser ELSE token

\* Refused, or lost on the way there or back.
Failed(c) ==
  /\ token' = AfterFailure(c.kind)
  /\ IF c.kind = "me" THEN Show(c.tab, [tab[c.tab] EXCEPT !.loading = FALSE])
     ELSE UNCHANGED tab
  /\ calls' = calls \ {c}
  /\ UNCHANGED <<calm, portal, row, changes>>

\* PUT users/:id by an administrator elsewhere: blocked, let in again, or another role.
Change(u) ==
  /\ changes < MaxChanges[calm]
  /\ changes' = changes + 1
  /\ \/ row' = [row EXCEPT ![u].active = ~@]
     \/ \E role \in {portal, Other} \ {row[u].role} : row' = [row EXCEPT ![u].role = role]
  /\ UNCHANGED <<calm, portal, token, tab, calls>>

-----------------------------------------------------------------------------
Next ==
  \/ \E t \in Tabs :
       \/ Load(t)
       \/ \E u \in Accounts : Login(t, u)
       \/ Logout(t)
       \/ \E page \in Visited : Visit(t, page)
       \/ TypeName(t) \/ SaveProfile(t)
  \/ \E c \in calls : Serve(c) \/ Answered(c) \/ Failed(c)
  \/ \E u \in Accounts : Change(u)

Spec == Init /\ [][Next]_vars

-----------------------------------------------------------------------------
Names == Accounts \union {Registered}

AuthUsers == [id : Accounts, role : Roles, name : Names]

Views ==
  [loading : BOOLEAN, user : AuthUsers \union {NoUser}, page : Pages, form : Names \union {NoName}]

Calls ==
  [tab : Tabs, kind : {"login", "me", "profile", "left"}, as : Accounts \union {NoUser},
   name : Names \union {NoName}, answer : AuthUsers \union {NoUser}]

TypeOK ==
  /\ calm \in BOOLEAN /\ portal \in Portals
  /\ row \in [Accounts -> [active : BOOLEAN, role : Roles, name : Names]]
  /\ changes \in Nat
  /\ token \in Accounts \union {NoUser}
  /\ tab \in [Tabs -> Views]
  /\ calls \subseteq Calls

\* Every stored name was typed, or had from the start, by its own account; what a tab
\* shows and who its requests act as are the same person, as long as one tab is used
\* and nobody signs out while a profile is saved.
OneSession ==
  calm => /\ \A t \in Tabs : tab[t].user # NoUser => token = tab[t].user.id
          /\ \A u \in Accounts : row[u].name \in {Registered, u}

\* A token is never left where every tab asks to sign in: somebody who signed out, or whom
\* /me refused, comes in again only with a password (logout, the catch of the first /me).
NoTokenUnattended ==
  token # NoUser => \E t \in Tabs : tab[t].loading \/ tab[t].user # NoUser

\* The menu leads to pages that exist, and a page is never refused to whoever is shown it
\* while the account has the role of the portal (the routes of Shell, @Roles).
PagesServed ==
  /\ \A role \in Roles : NavFor(role) \subseteq Routes(role)
  /\ \A t \in Tabs : Screen(tab[t]) = "pages" => portal \in AdmittedTo(tab[t].page)

SessionHolds == OneSession /\ NoTokenUnattended /\ PagesServed
=============================================================================
