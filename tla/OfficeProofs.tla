------------------------------ MODULE OfficeProofs ------------------------------
(***************************************************************************)
(* Proofs about the parts of MCOffice, for any people, tabs, requests,     *)
(* files, conversations, forms and bounds.                                 *)
(***************************************************************************)
EXTENDS MCOffice, FiniteSetTheorems, TLAPS

-----------------------------------------------------------------------------
(***************************************************************************)
(* The inductive invariant.  PagesKept, FormsOwned and NoTokenUnattended   *)
(* hold in any browser; Calm is about one in which a single tab is in use. *)
(***************************************************************************)
PagesKept == \A t \in Tabs : tab[t].page \in Routes(portal)

FormsOwned == \A t \in Tabs : tab[t].form # NoName => tab[t].user # NoUser

Blank(t) == tab[t] = Empty(tab[t].page) /\ ~\E c \in calls : c.tab = t

\* A tab that shows somebody holds that person's token, and its profile form that
\* person's name.
Signed(view) ==
  view.user # NoUser =>
    /\ ~view.loading
    /\ token = view.user.id
    /\ view.user.name \in {Registered, view.user.id}
    /\ view.form \in {NoName, Registered, view.user.id}

\* A request under way acts as whoever its tab shows, and so will its answer.
Own(c) ==
  /\ c.name \in {NoName, Registered, c.as}
  /\ c.answer # NoUser => c.answer.id = c.as /\ c.answer.name \in {Registered, c.as}
  /\ c.kind = "left" => c.answer = NoUser
  /\ c.kind = "me" => tab[c.tab].loading /\ tab[c.tab].user = NoUser /\ c.as = token
  /\ c.kind = "login" => ~tab[c.tab].loading /\ tab[c.tab].user = NoUser
  /\ c.kind = "profile" => tab[c.tab].user # NoUser /\ c.as = token

Calm ==
  /\ \A s, t \in Tabs : s # t => Blank(s) \/ Blank(t)
  /\ \A t \in Tabs : Signed(tab[t])
  /\ \A c \in calls : Own(c)
  /\ \A c, d \in calls : c.tab = d.tab /\ c.kind = d.kind /\ c.kind \in {"me", "login"} => c = d
  /\ \A u \in Accounts : row[u].name \in {Registered, u}

SessionInv ==
  /\ TypeOK
  /\ PagesKept /\ FormsOwned
  /\ NoTokenUnattended
  /\ calm => Calm

-----------------------------------------------------------------------------
(***************************************************************************)
(* Views and routes.                                                       *)
(***************************************************************************)

\* The pages of the portal are seen by whoever has its role.
LEMMA PagesSeen ==
  ASSUME NEW view, Screen(view) = "pages"
  PROVE  ~view.loading /\ view.user # NoUser
BY DEF Screen

\* The fields of the profile form are filled from the user shown, or stay.
LEMMA MountedView ==
  ASSUME NEW was \in Views, NEW view \in Views
  PROVE  /\ Mounted(was, view) \in Views
         /\ Mounted(was, view).loading = view.loading
         /\ Mounted(was, view).user = view.user
         /\ Mounted(was, view).page = view.page
         /\ \/ Mounted(was, view).form = NoName
            \/ /\ view.user # NoUser
               /\ \/ Mounted(was, view).form = was.form /\ was.user # NoUser
                  \/ Mounted(was, view).form = view.user.name
<1>1. PICK form : /\ Mounted(was, view) = [view EXCEPT !.form = form]
                  /\ \/ form = NoName
                     \/ form = was.form /\ Screen(view) = "pages" /\ Screen(was) = "pages"
                     \/ form = view.user.name /\ Screen(view) = "pages"
  BY DEF Mounted
<1>2. form \in Names \union {NoName}
  BY <1>1, PagesSeen DEF Views, AuthUsers
<1>3. [view EXCEPT !.form = form] \in Views
  BY <1>2 DEF Views
<1>4. /\ [view EXCEPT !.form = form].loading = view.loading
      /\ [view EXCEPT !.form = form].user = view.user
      /\ [view EXCEPT !.form = form].page = view.page
      /\ [view EXCEPT !.form = form].form = form
  BY DEF Views
<1> QED BY <1>1, <1>3, <1>4, PagesSeen

\* What a tab shows after a step of it, and that the others show the same.
LEMMA Shown ==
  ASSUME TypeOK, NEW t \in Tabs, NEW view \in Views, Show(t, view)
  PROVE  /\ tab' \in [Tabs -> Views]
         /\ tab'[t] = Mounted(tab[t], view)
         /\ \A s \in Tabs : s # t => tab'[s] = tab[s]
BY MountedView DEF Show, TypeOK

\* A page that is cleared is a view; so is one that shows an answer.
LEMMA Cleaned ==
  ASSUME NEW opened \in Pages, NEW waits \in BOOLEAN
  PROVE  /\ Empty(opened) \in Views /\ [Empty(opened) EXCEPT !.loading = waits] \in Views
         /\ [Empty(opened) EXCEPT !.loading = waits].loading = waits
         /\ [Empty(opened) EXCEPT !.loading = waits].user = NoUser
         /\ [Empty(opened) EXCEPT !.loading = waits].page = opened
BY DEF Empty, Views

\* The menu of a role has only routes of the role, and a route is served to it.
LEMMA RoutesServed ==
  ASSUME NEW role \in Roles
  PROVE  /\ NavFor(role) \subseteq Routes(role)
         /\ "list" \in Routes(role)
         /\ Routes(role) \subseteq Pages
         /\ \A opened \in Routes(role) : role \in AdmittedTo(opened)
<1>1. Routes(role) \subseteq Pages
  BY DEF Routes
<1>2. NavFor(role) \subseteq Routes(role) /\ "list" \in Routes(role)
  BY DEF NavFor, Routes, Hidden, Pages, AdminPages, ClerkPages, Clerks, Roles
<1>3. ASSUME NEW opened \in Routes(role) PROVE role \in AdmittedTo(opened)
  BY DEF Routes, Hidden, AdmittedTo, AdminPages, ClerkPages, Clerks, Roles
<1> QED BY <1>1, <1>2, <1>3

-----------------------------------------------------------------------------
(***************************************************************************)
(* What each step does to the tab it is taken in, for any browser: the     *)
(* view it leaves, and which requests are new.                             *)
(***************************************************************************)
Untouched(t) ==
  /\ tab' \in [Tabs -> Views]
  /\ \A s \in Tabs : s # t => tab'[s] = tab[s]
  /\ calls' \subseteq Calls
  /\ \A c \in calls' : c.tab = t \/ c \in calls

LEMMA LoadStep ==
  ASSUME TypeOK, NEW t \in Tabs, Load(t)
  PROVE  /\ Untouched(t)
         /\ tab'[t].user = NoUser /\ tab'[t].form = NoName /\ tab'[t].page = tab[t].page
         /\ token # NoUser <=> tab'[t].loading
         /\ \A d \in calls' :
              \/ d \in calls /\ (d.tab # t \/ d.kind = "left")
              \/ d.kind = "left" /\ d.answer = NoUser
                   /\ \E c \in calls : c.tab = t /\ c.kind = "profile"
                                         /\ d.as = c.as /\ d.name = c.name
              \/ /\ token # NoUser
                 /\ d = [tab |-> t, kind |-> "me", as |-> token, name |-> NoName,
                         answer |-> NoUser]
<1> DEFINE me == [tab |-> t, kind |-> "me", as |-> token, name |-> NoName, answer |-> NoUser]
<1>1. tab[t].page \in Pages /\ (token # NoUser) \in BOOLEAN
  BY Zenon DEF TypeOK, Views
<1>1a. tab[t].page \in Pages
  BY DEF TypeOK, Views
<1>2. PICK waits \in BOOLEAN : waits = (token # NoUser)
  BY Zenon
<1>3. PICK view : view = [Empty(tab[t].page) EXCEPT !.loading = waits]
  OBVIOUS
<1>4. view \in Views /\ view.loading = waits /\ view.user = NoUser /\ view.page = tab[t].page
  BY <1>1a, <1>3, Cleaned
<1>5. Show(t, view)
  BY <1>2, <1>3 DEF Load
<1>6. /\ tab' \in [Tabs -> Views] /\ \A s \in Tabs : s # t => tab'[s] = tab[s]
      /\ tab'[t].loading = waits /\ tab'[t].user = NoUser /\ tab'[t].page = tab[t].page
      /\ tab'[t].form = NoName
  BY <1>4, <1>5, Shown, MountedView DEF TypeOK
<1>7. calls' = {c \in calls : c.tab # t \/ c.kind = "left"}
        \union {[c EXCEPT !.kind = "left"] :
                  c \in {x \in calls : x.tab = t /\ x.kind = "profile" /\ x.answer = NoUser}}
        \union (IF token = NoUser THEN {} ELSE {me})
  BY DEF Load
<1>8. me \in Calls
  BY DEF TypeOK, Calls
<1>9. ASSUME NEW c \in calls, c.tab = t, c.kind = "profile", c.answer = NoUser
      PROVE  LET d == [c EXCEPT !.kind = "left"]
             IN  /\ d \in Calls /\ d.tab = t /\ d.kind = "left" /\ d.answer = NoUser
                 /\ d.as = c.as /\ d.name = c.name
  BY <1>9 DEF TypeOK, Calls
<1>10. ASSUME NEW d \in calls'
       PROVE  \/ d \in calls /\ (d.tab # t \/ d.kind = "left")
              \/ d \in Calls /\ d.tab = t /\ d.kind = "left" /\ d.answer = NoUser
                   /\ \E c \in calls : c.tab = t /\ c.kind = "profile"
                                         /\ d.as = c.as /\ d.name = c.name
              \/ token # NoUser /\ d = me
  <2>1. CASE d \in {c \in calls : c.tab # t \/ c.kind = "left"}
    BY <2>1
  <2>2. CASE d \in {[c EXCEPT !.kind = "left"] :
                  c \in {x \in calls : x.tab = t /\ x.kind = "profile" /\ x.answer = NoUser}}
    <3>1. PICK c \in calls : /\ c.tab = t /\ c.kind = "profile" /\ c.answer = NoUser
                             /\ d = [c EXCEPT !.kind = "left"]
      BY <2>2
    <3> QED BY <1>9, <3>1
  <2>3. CASE token # NoUser /\ d = me
    BY <2>3
  <2> QED BY <1>7, <2>1, <2>2, <2>3
<1>11. me.tab = t
  OBVIOUS
<1>12. calls' \subseteq Calls /\ \A d \in calls' : d.tab = t \/ d \in calls
  BY <1>8, <1>10, <1>11 DEF TypeOK
<1> QED BY <1>2, <1>6, <1>10, <1>12 DEF Untouched

\* A request that is sent, beside those under way.
LEMMA Sent ==
  ASSUME TypeOK, NEW t \in Tabs, NEW kind \in {"login", "profile"},
         NEW as \in Accounts \union {NoUser}, NEW name \in Names \union {NoName},
         Send(t, kind, as, name), tab' = tab
  PROVE  /\ Untouched(t)
         /\ calls' = calls \union
              {[tab |-> t, kind |-> kind, as |-> as, name |-> name, answer |-> NoUser]}
<1>1. [tab |-> t, kind |-> kind, as |-> as, name |-> name, answer |-> NoUser] \in Calls
  BY DEF Calls
<1>2. calls' = calls \union
         {[tab |-> t, kind |-> kind, as |-> as, name |-> name, answer |-> NoUser]}
  BY DEF Send
<1>3. PICK d : d = [tab |-> t, kind |-> kind, as |-> as, name |-> name, answer |-> NoUser]
  OBVIOUS
<1>4. calls' \subseteq Calls
  BY <1>1, <1>2 DEF TypeOK
<1>5. \A c \in calls' : c.tab = t \/ c \in calls
  <2>1. d.tab = t
    BY <1>3
  <2>2. calls' = calls \union {d}
    BY <1>2, <1>3
  <2> QED BY <2>1, <2>2
<1> QED BY <1>2, <1>4, <1>5 DEF TypeOK, Untouched

LEMMA LogoutStep ==
  ASSUME TypeOK, NEW t \in Tabs, Logout(t)
  PROVE  /\ Untouched(t) /\ calls' = calls /\ token' = NoUser
         /\ tab'[t].user = NoUser /\ tab'[t].form = NoName /\ tab'[t].page = tab[t].page
<1>1. PICK view : view = [tab[t] EXCEPT !.user = NoUser]
  OBVIOUS
<1>2. view \in Views /\ view.user = NoUser /\ view.page = tab[t].page
  BY <1>1 DEF TypeOK, Views
<1>3. tab[t] \in Views /\ Show(t, view)
  BY <1>1 DEF Logout, TypeOK
<1> QED BY <1>2, <1>3, Shown, MountedView DEF Logout, Cleared, Untouched, TypeOK

LEMMA VisitStep ==
  ASSUME SessionAssumption, TypeOK, NEW t \in Tabs, NEW opened, Visit(t, opened)
  PROVE  /\ Untouched(t) /\ calls' = calls /\ token' = token
         /\ tab[t].user # NoUser
         /\ tab'[t].user = tab[t].user /\ tab'[t].loading = tab[t].loading
         /\ tab'[t].page \in Routes(portal)
         /\ tab'[t].form \in {NoName, tab[t].form, tab[t].user.name}
<1>1. PICK to : /\ to = (IF opened \in Routes(portal) THEN opened ELSE "list")
  OBVIOUS
<1>2. to \in Routes(portal) /\ to \in Pages
  BY <1>1, RoutesServed DEF SessionAssumption, TypeOK
<1>3. PICK view : view = [tab[t] EXCEPT !.page = to]
  OBVIOUS
<1>4. /\ view \in Views /\ view.user = tab[t].user /\ view.loading = tab[t].loading
      /\ view.page = to
  BY <1>2, <1>3 DEF TypeOK, Views
<1>5. tab[t] \in Views /\ Show(t, view) /\ tab[t].user # NoUser
  BY <1>1, <1>3, PagesSeen DEF Visit, TypeOK
<1>6. /\ tab' \in [Tabs -> Views] /\ tab'[t] = Mounted(tab[t], view)
      /\ \A s \in Tabs : s # t => tab'[s] = tab[s]
  BY <1>4, <1>5, Shown
<1>7. calls' = calls /\ token' = token
  BY DEF Visit
<1>8. Untouched(t)
  BY <1>6, <1>7 DEF Untouched, TypeOK
<1>9. PICK m : m = Mounted(tab[t], view)
  OBVIOUS
<1>10. /\ m.user = view.user /\ m.loading = view.loading /\ m.page = view.page
       /\ m.form \in {NoName, tab[t].form, view.user.name}
  BY <1>4, <1>5, <1>9, MountedView
<1>11. tab'[t] = m
  BY <1>6, <1>9
<1> QED BY <1>2, <1>4, <1>5, <1>7, <1>8, <1>10, <1>11

LEMMA TypeNameStep ==
  ASSUME TypeOK, NEW t \in Tabs, TypeName(t), tab[t].user # NoUser
  PROVE  /\ Untouched(t) /\ calls' = calls /\ token' = token
         /\ tab'[t].user = tab[t].user /\ tab'[t].loading = tab[t].loading
         /\ tab'[t].page = tab[t].page /\ tab'[t].form = tab[t].user.id
<1>1. tab[t].user.id \in Names /\ tab[t] \in Views
  BY DEF TypeOK, Views, AuthUsers, Names
<1>2. PICK view : view = [tab[t] EXCEPT !.form = tab[t].user.id]
  OBVIOUS
<1>3. /\ view \in Views /\ view.user = tab[t].user /\ view.loading = tab[t].loading
      /\ view.page = tab[t].page /\ view.form = tab[t].user.id
  BY <1>1, <1>2 DEF Views
<1>4. tab' = [tab EXCEPT ![t] = view]
  BY <1>2 DEF TypeName, TypeOK
<1> QED BY <1>3, <1>4 DEF TypeName, TypeOK, Untouched

\* The server answers: only the record of the request changes, and the name it saves.
LEMMA ServeStep ==
  ASSUME TypeOK, NEW c \in calls, Serve(c)
  PROVE  /\ row' \in [Accounts -> [active : BOOLEAN, role : Roles, name : Names]]
         /\ c.as \in Accounts
         /\ \A u \in Accounts : row'[u].name = IF u = c.as /\ c.name # NoName THEN c.name
                                               ELSE row[u].name
         /\ calls' \subseteq Calls
         /\ \E d : /\ d.tab = c.tab /\ d.kind = c.kind /\ d.as = c.as /\ d.name = c.name
                   /\ d.answer.id = c.as /\ d.answer.name = row'[c.as].name
                   /\ \A e \in calls' : \/ e \in calls /\ e # c
                                        \/ e = d /\ c.kind # "left"
<1>1. c \in Calls /\ c.as \in Accounts /\ row[c.as].role \in Roles
  BY DEF Serve, Validated, TypeOK, Calls
<1>2. /\ row' \in [Accounts -> [active : BOOLEAN, role : Roles, name : Names]]
      /\ \A u \in Accounts : row'[u].name = IF u = c.as /\ c.name # NoName THEN c.name
                                            ELSE row[u].name
  <2>1. CASE c.name = NoName
    BY <2>1 DEF Serve, TypeOK
  <2>2. CASE c.name # NoName
    <3>1. c.name \in Names
      BY <1>1, <2>2 DEF Calls
    <3>2. row' = [row EXCEPT ![c.as].name = c.name]
      BY <2>2 DEF Serve
    <3> QED BY <1>1, <2>2, <3>1, <3>2 DEF TypeOK
  <2> QED BY <2>1, <2>2
<1>3. PICK answer : answer = [id |-> c.as, role |-> row'[c.as].role, name |-> row'[c.as].name]
  OBVIOUS
<1>4. answer \in AuthUsers
  BY <1>1, <1>2, <1>3 DEF AuthUsers
<1>5. calls' = (calls \ {c}) \union
                 (IF c.kind = "left" THEN {} ELSE {[c EXCEPT !.answer = answer]})
  BY <1>3 DEF Serve, AuthUser
<1>6. PICK d : d = [c EXCEPT !.answer = answer]
  OBVIOUS
<1>7. /\ d \in Calls /\ d.tab = c.tab /\ d.kind = c.kind /\ d.as = c.as /\ d.name = c.name
      /\ d.answer = answer
  BY <1>1, <1>4, <1>6 DEF Calls
<1>8. answer.id = c.as /\ answer.name = row'[c.as].name
  BY <1>3
<1>9. \A e \in calls' : (e \in calls /\ e # c) \/ (e = d /\ c.kind # "left")
  BY <1>5, <1>6
<1>10. calls' \subseteq Calls
  BY <1>7, <1>9 DEF TypeOK
<1>11. /\ d.tab = c.tab /\ d.kind = c.kind /\ d.as = c.as /\ d.name = c.name
       /\ d.answer.id = c.as /\ d.answer.name = row'[c.as].name
       /\ \A e \in calls' : (e \in calls /\ e # c) \/ (e = d /\ c.kind # "left")
  BY <1>7, <1>8, <1>9
<1>12. \E e : /\ e.tab = c.tab /\ e.kind = c.kind /\ e.as = c.as /\ e.name = c.name
             /\ e.answer.id = c.as /\ e.answer.name = row'[c.as].name
             /\ \A x \in calls' : (x \in calls /\ x # c) \/ (x = e /\ c.kind # "left")
  <2> WITNESS d
  <2> QED BY <1>11
<1> QED BY <1>1, <1>2, <1>10, <1>12

LEMMA AnsweredStep ==
  ASSUME TypeOK, NEW c \in calls, Answered(c)
  PROVE  /\ Untouched(c.tab) /\ c.tab \in Tabs /\ calls' = calls \ {c} /\ c.answer # NoUser
         /\ token' = IF c.kind = "login" THEN c.as ELSE token
         /\ c.as \in Accounts \union {NoUser}
         /\ tab'[c.tab].user = c.answer /\ tab'[c.tab].page = tab[c.tab].page
         /\ tab'[c.tab].loading = IF c.kind = "me" THEN FALSE ELSE tab[c.tab].loading
         /\ \/ tab'[c.tab].form \in {NoName, c.answer.name}
            \/ tab'[c.tab].form = tab[c.tab].form /\ tab[c.tab].user # NoUser
<1>1. /\ c \in Calls /\ c.tab \in Tabs /\ tab[c.tab] \in Views /\ c.answer # NoUser
      /\ c.as \in Accounts \union {NoUser}
  BY DEF Answered, TypeOK, Calls
<1>2. PICK view : view = [tab[c.tab] EXCEPT !.loading = IF c.kind = "me" THEN FALSE ELSE @,
                                            !.user = c.answer]
  OBVIOUS
<1>3. /\ view \in Views /\ view.user = c.answer /\ view.page = tab[c.tab].page
      /\ view.loading = IF c.kind = "me" THEN FALSE ELSE tab[c.tab].loading
  <2>1. c.answer \in AuthUsers \union {NoUser}
    BY <1>1 DEF Calls
  <2>2. CASE c.kind = "me"
    BY <1>1, <1>2, <2>1, <2>2 DEF Views
  <2>3. CASE c.kind # "me"
    BY <1>1, <1>2, <2>1, <2>3 DEF Views
  <2> QED BY <2>2, <2>3
<1>4. Show(c.tab, view)
  BY <1>2 DEF Answered
<1>5. /\ tab' \in [Tabs -> Views] /\ tab'[c.tab] = Mounted(tab[c.tab], view)
      /\ \A s \in Tabs : s # c.tab => tab'[s] = tab[s]
  BY <1>1, <1>3, <1>4, Shown
<1>6. calls' = calls \ {c} /\ token' = IF c.kind = "login" THEN c.as ELSE token
  BY DEF Answered
<1>7. Untouched(c.tab)
  BY <1>5, <1>6 DEF Untouched, TypeOK
<1>8. PICK m : m = Mounted(tab[c.tab], view)
  OBVIOUS
<1>9. /\ m.user = view.user /\ m.loading = view.loading /\ m.page = view.page
      /\ \/ m.form \in {NoName, view.user.name}
         \/ m.form = tab[c.tab].form /\ tab[c.tab].user # NoUser
  BY <1>1, <1>3, <1>8, MountedView
<1>10. tab'[c.tab] = m
  BY <1>5, <1>8
<1> QED BY <1>1, <1>3, <1>6, <1>7, <1>9, <1>10

LEMMA FailedStep ==
  ASSUME TypeOK, NEW c \in calls, Failed(c)
  PROVE  /\ Untouched(c.tab) /\ c.tab \in Tabs /\ calls' = calls \ {c}
         /\ token' = IF c.kind = "me" THEN NoUser ELSE token
         /\ tab'[c.tab].user = tab[c.tab].user /\ tab'[c.tab].page = tab[c.tab].page
         /\ c.kind # "me" => tab' = tab
         /\ c.kind = "me" => /\ ~tab'[c.tab].loading
                             /\ tab'[c.tab].form \in {NoName, tab[c.tab].form, tab[c.tab].user.name}
                             /\ tab'[c.tab].form # NoName => tab'[c.tab].user # NoUser
<1>1. c.tab \in Tabs /\ tab[c.tab] \in Views
  BY DEF TypeOK, Calls
<1>2. calls' = calls \ {c} /\ token' = IF c.kind = "me" THEN NoUser ELSE token
  BY DEF Failed, AfterFailure
<1>3. CASE c.kind # "me"
  BY <1>1, <1>2, <1>3 DEF Failed, Untouched, TypeOK
<1>4. CASE c.kind = "me"
  <2>1. PICK view : view = [tab[c.tab] EXCEPT !.loading = FALSE]
    OBVIOUS
  <2>2. /\ view \in Views /\ view.user = tab[c.tab].user /\ view.page = tab[c.tab].page
        /\ ~view.loading
    BY <1>1, <2>1 DEF Views
  <2>3. Show(c.tab, view)
    BY <1>4, <2>1 DEF Failed
  <2>4. /\ tab' \in [Tabs -> Views] /\ tab'[c.tab] = Mounted(tab[c.tab], view)
        /\ \A s \in Tabs : s # c.tab => tab'[s] = tab[s]
    BY <1>1, <2>2, <2>3, Shown
  <2>5. Untouched(c.tab)
    BY <1>2, <2>4 DEF Untouched, TypeOK
  <2>6. PICK m : m = Mounted(tab[c.tab], view)
    OBVIOUS
  <2>7. /\ m.user = view.user /\ m.page = view.page /\ m.loading = view.loading
        /\ m.form \in {NoName, tab[c.tab].form, view.user.name}
        /\ m.form # NoName => view.user # NoUser
    BY <1>1, <2>2, <2>6, MountedView
  <2>8. tab'[c.tab] = m
    BY <2>4, <2>6
  <2> QED BY <1>1, <1>2, <1>4, <2>2, <2>5, <2>7, <2>8
<1> QED BY <1>3, <1>4

-----------------------------------------------------------------------------
(***************************************************************************)
(* Types, and what holds in any browser.                                   *)
(***************************************************************************)
LEMMA SaveStep ==
  ASSUME TypeOK, NEW t \in Tabs, SaveProfile(t)
  PROVE  \E name \in {tab[t].form, NoName} :
           /\ Untouched(t)
           /\ calls' = calls \union
                {[tab |-> t, kind |-> "profile", as |-> token, name |-> name,
                  answer |-> NoUser]}
<1>1. PICK name \in {tab[t].form, NoName} : Send(t, "profile", token, name)
  BY DEF SaveProfile
<1>2. name \in Names \union {NoName} /\ token \in Accounts \union {NoUser} /\ tab' = tab
  BY DEF TypeOK, Views, SaveProfile
<1> QED BY <1>1, <1>2, Sent

\* Every step leaves a well-typed state, and whatever tab it was taken in the page of it is
\* one the portal has.
LEMMA NextKept ==
  ASSUME SessionAssumption, TypeOK, PagesKept, FormsOwned, NoTokenUnattended, [Next]_vars
  PROVE  TypeOK' /\ PagesKept' /\ FormsOwned' /\ NoTokenUnattended'
<1>1. ASSUME NEW t \in Tabs, Load(t)
      PROVE  TypeOK' /\ PagesKept' /\ FormsOwned' /\ NoTokenUnattended'
  <2>1. /\ Untouched(t) /\ UNCHANGED <<calm, portal, row, changes, token>>
        /\ tab'[t].user = NoUser /\ tab'[t].form = NoName /\ tab'[t].page = tab[t].page
        /\ token # NoUser => tab'[t].loading
    BY <1>1, LoadStep DEF Load
  <2>2. TypeOK'
    BY <2>1 DEF TypeOK, Untouched
  <2>3. PagesKept' /\ FormsOwned'
    BY <2>1 DEF PagesKept, FormsOwned, Untouched
  <2>4. NoTokenUnattended'
    BY <2>1 DEF NoTokenUnattended
  <2> QED BY <2>2, <2>3, <2>4
<1>2. ASSUME NEW t \in Tabs, NEW u \in Accounts, Login(t, u)
      PROVE  TypeOK' /\ PagesKept' /\ FormsOwned' /\ NoTokenUnattended'
  <2>1. Send(t, "login", u, NoName) /\ tab' = tab
    BY <1>2 DEF Login
  <2>2. Untouched(t)
    BY <2>1, Sent
  <2> QED BY <1>2, <2>2 DEF Login, TypeOK, Untouched, PagesKept, FormsOwned, NoTokenUnattended
<1>3. ASSUME NEW t \in Tabs, Logout(t)
      PROVE  TypeOK' /\ PagesKept' /\ FormsOwned' /\ NoTokenUnattended'
  BY <1>3, LogoutStep
  DEF Logout, TypeOK, Untouched, PagesKept, FormsOwned, NoTokenUnattended
<1>4. ASSUME NEW t \in Tabs, NEW opened \in Visited, Visit(t, opened)
      PROVE  TypeOK' /\ PagesKept' /\ FormsOwned' /\ NoTokenUnattended'
  BY <1>4, VisitStep
  DEF Visit, TypeOK, Untouched, PagesKept, FormsOwned, NoTokenUnattended
<1>5. ASSUME NEW t \in Tabs, TypeName(t)
      PROVE  TypeOK' /\ PagesKept' /\ FormsOwned' /\ NoTokenUnattended'
  <2>1. tab[t].user # NoUser
    BY <1>5 DEF TypeName, FormsOwned
  <2> QED BY <1>5, <2>1, TypeNameStep
          DEF TypeName, TypeOK, Untouched, PagesKept, FormsOwned, NoTokenUnattended
<1>6. ASSUME NEW t \in Tabs, SaveProfile(t)
      PROVE  TypeOK' /\ PagesKept' /\ FormsOwned' /\ NoTokenUnattended'
  BY <1>6, SaveStep
  DEF SaveProfile, TypeOK, Untouched, PagesKept, FormsOwned, NoTokenUnattended
<1>7. ASSUME NEW c \in calls, Serve(c)
      PROVE  TypeOK' /\ PagesKept' /\ FormsOwned' /\ NoTokenUnattended'
  BY <1>7, ServeStep DEF Serve, TypeOK, PagesKept, FormsOwned, NoTokenUnattended
<1>8. ASSUME NEW c \in calls, Answered(c)
      PROVE  TypeOK' /\ PagesKept' /\ FormsOwned' /\ NoTokenUnattended'
  BY <1>8, AnsweredStep
  DEF Answered, TypeOK, Untouched, PagesKept, FormsOwned, NoTokenUnattended
<1>9. ASSUME NEW c \in calls, Failed(c)
      PROVE  TypeOK' /\ PagesKept' /\ FormsOwned' /\ NoTokenUnattended'
  BY <1>9, FailedStep
  DEF Failed, TypeOK, Untouched, PagesKept, FormsOwned, NoTokenUnattended
<1>10. ASSUME NEW u \in Accounts, Change(u)
       PROVE  TypeOK' /\ PagesKept' /\ FormsOwned' /\ NoTokenUnattended'
  <2>1. row' \in [Accounts -> [active : BOOLEAN, role : Roles, name : Names]]
    <3>1. CASE row' = [row EXCEPT ![u].active = ~@]
      BY <3>1 DEF TypeOK
    <3>2. ASSUME NEW role \in {portal, Other}, row' = [row EXCEPT ![u].role = role]
          PROVE  row' \in [Accounts -> [active : BOOLEAN, role : Roles, name : Names]]
      <4>1. role \in Roles
        BY DEF TypeOK, SessionAssumption
      <4> QED BY <3>2, <4>1 DEF TypeOK
    <3> QED BY <1>10, <3>1, <3>2 DEF Change
  <2>2. changes' \in Nat
    BY <1>10 DEF Change, TypeOK
  <2> QED BY <1>10, <2>1, <2>2
          DEF Change, TypeOK, PagesKept, FormsOwned, NoTokenUnattended
<1>11. CASE UNCHANGED vars
  BY <1>11 DEF vars, TypeOK, PagesKept, FormsOwned, NoTokenUnattended
<1> QED
  BY <1>1, <1>2, <1>3, <1>4, <1>5, <1>6, <1>7, <1>8, <1>9, <1>10, <1>11 DEF Next

-----------------------------------------------------------------------------
(***************************************************************************)
(* A calm browser.                                                         *)
(***************************************************************************)

\* While one tab is used the others stay blank, and every request is the used tab's.
LEMMA OnlyTab ==
  ASSUME TypeOK, NEW t \in Tabs, \A s \in Tabs : s # t => Blank(s), Untouched(t)
  PROVE  /\ \A c \in calls \union calls' : c.tab = t
         /\ \A s, r \in Tabs : s # r => Blank(s)' \/ Blank(r)'
         /\ \A s \in Tabs : s # t => Signed(tab[s])'
<1>1. \A c \in calls : c.tab \in Tabs /\ c.tab = t
  BY DEF TypeOK, Calls, Blank
<1>2. \A c \in calls' : c.tab = t
  BY <1>1 DEF Untouched
<1>3. ASSUME NEW s \in Tabs, s # t PROVE tab'[s] = Empty(tab'[s].page)
  BY <1>3 DEF Untouched, Blank
<1>4. \A s \in Tabs : s # t => Blank(s)'
  BY <1>2, <1>3 DEF Blank
<1>5. ASSUME NEW s \in Tabs, s # t PROVE tab'[s].user = NoUser
  <2>1. PICK view : view = Empty(tab'[s].page)
    OBVIOUS
  <2>2. view.user = NoUser
    BY <2>1 DEF Empty
  <2> QED BY <1>3, <1>5, <2>1, <2>2
<1> QED BY <1>1, <1>2, <1>4, <1>5 DEF Signed

\* A tab with somebody in it, or one that waits for an answer, is the one that is used.
LEMMA InUse ==
  ASSUME TypeOK, Calm, NEW t \in Tabs,
         tab[t].user # NoUser \/ \E c \in calls : c.tab = t
  PROVE  \A s \in Tabs : s # t => Blank(s)
<1>1. ~Blank(t)
  BY DEF Blank, Empty
<1> QED BY <1>1 DEF Calm

\* Where a tab is used, Calm is what it says of that tab and of its requests.
LEMMA CalmAgain ==
  ASSUME TypeOK, Calm, NEW t \in Tabs, \A s \in Tabs : s # t => Blank(s), Untouched(t),
         Signed(tab[t])', \A c \in calls' : Own(c)',
         row' = row \/ \A u \in Accounts : row'[u].name \in {Registered, u},
         \A c, d \in calls' : c.kind = d.kind /\ c.kind \in {"me", "login"} => c = d
  PROVE  Calm'
<1>1. /\ \A s, r \in Tabs : s # r => Blank(s)' \/ Blank(r)'
      /\ \A s \in Tabs : s # t => Signed(tab[s])'
  BY OnlyTab
<1>2. \A s \in Tabs : Signed(tab[s])'
  BY <1>1
<1>3. \A u \in Accounts : row'[u].name \in {Registered, u}
  BY DEF Calm
<1> QED BY <1>1, <1>2, <1>3 DEF Calm

\* A step that leaves who is shown and the token keeps Own of the requests that were there.
LEMMA OwnKept ==
  ASSUME TypeOK, NEW t \in Tabs, NEW c \in calls, c.tab = t, Own(c), token' = token,
         tab'[t].user = tab[t].user, tab'[t].loading = tab[t].loading
  PROVE  Own(c)'
BY DEF Own

LEMMA LoadCalm ==
  ASSUME TypeOK, Calm, calm, NEW t \in Tabs, Load(t)
  PROVE  Calm'
<1>1. \A s \in Tabs : s # t => Blank(s)
  BY DEF Load, Used, Blank
<1>2. /\ Untouched(t) /\ tab'[t].user = NoUser
      /\ token # NoUser <=> tab'[t].loading
      /\ \A d \in calls' :
           \/ d \in calls /\ (d.tab # t \/ d.kind = "left")
           \/ d.kind = "left" /\ d.answer = NoUser
                /\ \E c \in calls : c.tab = t /\ c.kind = "profile"
                                      /\ d.as = c.as /\ d.name = c.name
           \/ /\ token # NoUser
              /\ d = [tab |-> t, kind |-> "me", as |-> token, name |-> NoName,
                      answer |-> NoUser]
  BY LoadStep
<1>3. \A c \in calls \union calls' : c.tab = t
  BY <1>1, <1>2, OnlyTab
<1>4. token' = token /\ row' = row
  BY DEF Load
<1>5. ASSUME NEW d \in calls'
      PROVE  /\ Own(d)'
             /\ \/ d.kind = "left"
                \/ d = [tab |-> t, kind |-> "me", as |-> token, name |-> NoName,
                        answer |-> NoUser]
  <2>1. CASE d \in calls /\ d.kind = "left"
    BY <2>1 DEF Calm, Own
  <2>2. CASE d.kind = "left" /\ d.answer = NoUser
                /\ \E c \in calls : c.tab = t /\ c.kind = "profile"
                                      /\ d.as = c.as /\ d.name = c.name
    BY <2>2 DEF Calm, Own
  <2>3. CASE /\ token # NoUser
             /\ d = [tab |-> t, kind |-> "me", as |-> token, name |-> NoName,
                     answer |-> NoUser]
    <3>1. d.tab = t /\ d.kind = "me" /\ d.as = token /\ d.name = NoName /\ d.answer = NoUser
      BY <2>3
    <3>2. tab'[t].loading
      BY <1>2, <2>3
    <3> QED BY <1>2, <1>4, <2>3, <3>1, <3>2 DEF Own
  <2> QED BY <1>2, <1>3, <2>1, <2>2, <2>3
<1>6. \A c, d \in calls' : c.kind = d.kind /\ c.kind \in {"me", "login"} => c = d
  BY <1>5
<1>7. Signed(tab[t])'
  BY <1>2 DEF Signed
<1> QED BY <1>1, <1>2, <1>4, <1>5, <1>6, <1>7, CalmAgain

LEMMA LoginCalm ==
  ASSUME TypeOK, Calm, calm, NEW t \in Tabs, NEW u \in Accounts, Login(t, u)
  PROVE  Calm'
<1> DEFINE new == [tab |-> t, kind |-> "login", as |-> u, name |-> NoName, answer |-> NoUser]
<1>1. \A s \in Tabs : s # t => Blank(s)
  BY DEF Login, Used, Blank
<1>2. Send(t, "login", u, NoName) /\ tab' = tab /\ token' = token /\ row' = row
  BY DEF Login
<1>3. Untouched(t) /\ calls' = calls \union {new}
  BY <1>2, Sent
<1>4. \A c \in calls \union calls' : c.tab = t
  BY <1>1, <1>3, OnlyTab
<1>5. ~tab[t].loading /\ tab[t].user = NoUser
  BY DEF Login, Screen
<1>6. /\ new.tab = t /\ new.kind = "login" /\ new.as = u /\ new.name = NoName
      /\ new.answer = NoUser
  OBVIOUS
<1> HIDE DEF new
<1>7. Own(new)'
  BY <1>2, <1>5, <1>6 DEF Own
<1>8. \A c \in calls' : Own(c)'
  BY <1>2, <1>3, <1>4, <1>7, OwnKept DEF Calm
<1>9. \A c \in calls : c.kind # "login"
  BY <1>4 DEF Login, Pending
<1>10. \A c, d \in calls' : c.kind = d.kind /\ c.kind \in {"me", "login"} => c = d
  BY <1>3, <1>4, <1>6, <1>9 DEF Calm
<1>11. Signed(tab[t])'
  BY <1>2 DEF Calm, Signed
<1> QED BY <1>1, <1>2, <1>3, <1>8, <1>10, <1>11, CalmAgain

LEMMA LogoutCalm ==
  ASSUME TypeOK, Calm, calm, NEW t \in Tabs, Logout(t)
  PROVE  Calm'
<1>1. tab[t].user # NoUser /\ ~Pending(t, "profile") /\ row' = row
  BY DEF Logout
<1>2. \A s \in Tabs : s # t => Blank(s)
  BY <1>1, InUse
<1>3. Untouched(t) /\ calls' = calls /\ tab'[t].user = NoUser
  BY LogoutStep
<1>4. \A c \in calls : c.tab = t
  BY <1>2, <1>3, OnlyTab
<1>5. ASSUME NEW c \in calls PROVE Own(c)'
  <2>1. c.kind = "left"
    <3>1. c.kind \in {"login", "me", "profile", "left"}
      BY DEF TypeOK, Calls
    <3> QED BY <1>1, <1>4, <3>1 DEF Calm, Own, Pending
  <2> QED BY <2>1 DEF Calm, Own
<1>6. Signed(tab[t])'
  BY <1>3 DEF Signed
<1>7. \A c, d \in calls' : c.kind = d.kind /\ c.kind \in {"me", "login"} => c = d
  BY <1>3, <1>4 DEF Calm
<1> QED BY <1>1, <1>2, <1>3, <1>5, <1>6, <1>7, CalmAgain

LEMMA VisitCalm ==
  ASSUME SessionAssumption, TypeOK, Calm, calm, NEW t \in Tabs, NEW opened, Visit(t, opened)
  PROVE  Calm'
<1>1. /\ Untouched(t) /\ calls' = calls /\ token' = token
      /\ tab[t].user # NoUser
      /\ tab'[t].user = tab[t].user /\ tab'[t].loading = tab[t].loading
      /\ tab'[t].form \in {NoName, tab[t].form, tab[t].user.name}
  BY VisitStep
<1>2. \A s \in Tabs : s # t => Blank(s)
  BY <1>1, InUse
<1>3. \A c \in calls : c.tab = t
  BY <1>1, <1>2, OnlyTab
<1>4. \A c \in calls : Own(c)'
  BY <1>1, <1>3, OwnKept DEF Calm
<1>5. Signed(tab[t])'
  BY <1>1 DEF Calm, Signed
<1>6. \A c, d \in calls' : c.kind = d.kind /\ c.kind \in {"me", "login"} => c = d
  BY <1>1, <1>3 DEF Calm
<1>7. row' = row
  BY DEF Visit
<1> QED BY <1>1, <1>2, <1>4, <1>5, <1>6, <1>7, CalmAgain

LEMMA TypeNameCalm ==
  ASSUME TypeOK, FormsOwned, Calm, calm, NEW t \in Tabs, TypeName(t)
  PROVE  Calm'
<1>1. tab[t].user # NoUser /\ row' = row
  BY DEF TypeName, FormsOwned
<1>2. /\ Untouched(t) /\ calls' = calls /\ token' = token
      /\ tab'[t].user = tab[t].user /\ tab'[t].loading = tab[t].loading
      /\ tab'[t].form = tab[t].user.id
  BY <1>1, TypeNameStep
<1>3. \A s \in Tabs : s # t => Blank(s)
  BY <1>1, InUse
<1>4. \A c \in calls : c.tab = t
  BY <1>2, <1>3, OnlyTab
<1>5. \A c \in calls : Own(c)'
  BY <1>2, <1>4, OwnKept DEF Calm
<1>6. Signed(tab[t])'
  BY <1>1, <1>2 DEF Calm, Signed
<1>7. \A c, d \in calls' : c.kind = d.kind /\ c.kind \in {"me", "login"} => c = d
  BY <1>2, <1>4 DEF Calm
<1> QED BY <1>1, <1>2, <1>3, <1>5, <1>6, <1>7, CalmAgain

LEMMA SaveCalm ==
  ASSUME TypeOK, FormsOwned, Calm, calm, NEW t \in Tabs, SaveProfile(t)
  PROVE  Calm'
<1>1. tab[t].user # NoUser /\ tab' = tab /\ token' = token /\ row' = row
  BY DEF SaveProfile, FormsOwned
<1>2. \A s \in Tabs : s # t => Blank(s)
  BY <1>1, InUse
<1>3. PICK name \in {tab[t].form, NoName} :
        /\ Untouched(t)
        /\ calls' = calls \union
             {[tab |-> t, kind |-> "profile", as |-> token, name |-> name, answer |-> NoUser]}
  BY SaveStep
<1>4. PICK new : new = [tab |-> t, kind |-> "profile", as |-> token, name |-> name,
                        answer |-> NoUser]
  OBVIOUS
<1>5. /\ new.tab = t /\ new.kind = "profile" /\ new.as = token /\ new.name = name
      /\ new.answer = NoUser
  BY <1>4
<1>6. calls' = calls \union {new}
  BY <1>3, <1>4
<1>7. \A c \in calls \union calls' : c.tab = t
  BY <1>2, <1>3, OnlyTab
<1>8. name \in {NoName, Registered, token}
  BY <1>1 DEF Calm, Signed
<1>9. Own(new)'
  BY <1>1, <1>5, <1>8 DEF Own
<1>10. \A c \in calls' : Own(c)'
  BY <1>1, <1>6, <1>7, <1>9, OwnKept DEF Calm
<1>11. \A c, d \in calls' : c.kind = d.kind /\ c.kind \in {"me", "login"} => c = d
  BY <1>5, <1>6, <1>7 DEF Calm
<1>12. Signed(tab[t])'
  BY <1>1 DEF Calm, Signed
<1> QED BY <1>1, <1>2, <1>3, <1>10, <1>11, <1>12, CalmAgain

\* The name the server stores and answers with is the caller's own.
LEMMA ServeCalm ==
  ASSUME TypeOK, Calm, calm, NEW c \in calls, Serve(c)
  PROVE  Calm'
<1>1. c.tab \in Tabs /\ tab' = tab /\ token' = token /\ Own(c)
  BY DEF Serve, TypeOK, Calls, Calm
<1>2. /\ \A u \in Accounts : row'[u].name = IF u = c.as /\ c.name # NoName THEN c.name
                                            ELSE row[u].name
      /\ calls' \subseteq Calls /\ c.as \in Accounts
  BY ServeStep
<1>3. PICK d : /\ d.tab = c.tab /\ d.kind = c.kind /\ d.as = c.as /\ d.name = c.name
               /\ d.answer.id = c.as /\ d.answer.name = row'[c.as].name
               /\ \A e \in calls' : (e \in calls /\ e # c) \/ (e = d /\ c.kind # "left")
  BY ServeStep
<1>4. \A s \in Tabs : s # c.tab => Blank(s)
  BY <1>1, InUse
<1>5. Untouched(c.tab)
  BY <1>1, <1>2, <1>3 DEF Untouched, TypeOK
<1>6. \A e \in calls \union calls' : e.tab = c.tab
  BY <1>1, <1>4, <1>5, OnlyTab
<1>7. \A u \in Accounts : row'[u].name \in {Registered, u}
  BY <1>1, <1>2 DEF Calm, Own
<1>8. c.kind # "left" => Own(d)'
  BY <1>1, <1>2, <1>3, <1>7 DEF Own
<1>9. \A e \in calls : Own(e)'
  BY <1>1 DEF Calm, Own
<1>10. \A e \in calls' : Own(e)'
  BY <1>3, <1>8, <1>9
<1>11. \A e, f \in calls' : e.kind = f.kind /\ e.kind \in {"me", "login"} => e = f
  BY <1>3, <1>6 DEF Calm
<1>12. Signed(tab[c.tab])'
  BY <1>1 DEF Calm, Signed
<1> QED BY <1>1, <1>4, <1>5, <1>7, <1>10, <1>11, <1>12, CalmAgain

\* An answer shows whom the request acted as; what else is under way acts as the same.
LEMMA AnsweredCalm ==
  ASSUME TypeOK, Calm, calm, NEW c \in calls, Answered(c)
  PROVE  Calm'
<1> DEFINE t == c.tab
<1>1. /\ Untouched(t) /\ t \in Tabs /\ calls' = calls \ {c} /\ c.answer # NoUser
      /\ token' = IF c.kind = "login" THEN c.as ELSE token
      /\ tab'[t].user = c.answer
      /\ tab'[t].loading = IF c.kind = "me" THEN FALSE ELSE tab[t].loading
      /\ \/ tab'[t].form \in {NoName, c.answer.name}
         \/ tab'[t].form = tab[t].form /\ tab[t].user # NoUser
  BY AnsweredStep
<1>2. Own(c) /\ c.kind \in {"me", "login", "profile"} /\ row' = row
  <2>1. c.kind \in {"login", "me", "profile", "left"}
    BY DEF TypeOK, Calls
  <2> QED BY <1>1, <2>1 DEF Calm, Own, Answered
<1>3. Signed(tab[t])
  BY <1>1 DEF Calm
<1> HIDE DEF t
<1>4. \A s \in Tabs : s # t => Blank(s)
  BY <1>1, InUse DEF t
<1>5. \A e \in calls \union calls' : e.tab = t
  BY <1>1, <1>4, OnlyTab
<1>6. /\ c.answer.id = c.as /\ c.answer.name \in {Registered, c.as} /\ token' = c.as
      /\ ~tab'[t].loading
      /\ c.kind = "profile" => tab[t].user # NoUser /\ token = c.as
      /\ c.kind # "profile" => tab[t].user = NoUser
      /\ c.kind = "me" => tab[t].loading
      /\ c.kind = "login" => ~tab[t].loading
  BY <1>1, <1>2, <1>3 DEF Own, Signed, t
<1>7. Signed(tab[t])'
  BY <1>1, <1>3, <1>6 DEF Signed
<1>8. ASSUME NEW e \in calls' PROVE Own(e)'
  <2>1. e \in calls /\ e # c /\ e.tab = t /\ Own(e)
    BY <1>1, <1>5, <1>8 DEF Calm
  <2>2. e.kind \in {"left", "profile"}
    <3>1. e.kind \in {"login", "me", "profile", "left"}
      BY <2>1 DEF TypeOK, Calls
    <3>2. e.kind = c.kind /\ c.kind \in {"me", "login"} => e = c
      BY <1>5, <2>1 DEF Calm
    <3> QED BY <1>2, <1>6, <2>1, <3>1, <3>2 DEF Own
  <2>3. CASE e.kind = "left"
    BY <2>1, <2>3 DEF Own
  <2>4. CASE e.kind = "profile"
    BY <1>1, <1>2, <1>6, <2>1, <2>4 DEF Own
  <2> QED BY <2>2, <2>3, <2>4
<1>9. \A e, f \in calls' : e.kind = f.kind /\ e.kind \in {"me", "login"} => e = f
  BY <1>1, <1>5 DEF Calm
<1> QED BY <1>1, <1>2, <1>4, <1>7, <1>8, <1>9, CalmAgain

LEMMA FailedCalm ==
  ASSUME TypeOK, FormsOwned, Calm, calm, NEW c \in calls, Failed(c)
  PROVE  Calm'
<1> DEFINE t == c.tab
<1>1. /\ Untouched(t) /\ t \in Tabs /\ calls' = calls \ {c}
      /\ token' = IF c.kind = "me" THEN NoUser ELSE token
      /\ tab'[t].user = tab[t].user
      /\ c.kind # "me" => tab' = tab
      /\ c.kind = "me" => ~tab'[t].loading
  BY FailedStep
<1>2. Own(c) /\ row' = row /\ Signed(tab[t])
  BY <1>1 DEF Calm, Failed
<1>3. c.kind = "me" => tab[t].user = NoUser /\ tab[t].loading
  BY <1>2 DEF Own
<1> HIDE DEF t
<1>4. \A s \in Tabs : s # t => Blank(s)
  BY <1>1, InUse DEF t
<1>5. \A e \in calls \union calls' : e.tab = t
  BY <1>1, <1>4, OnlyTab
<1>6. Signed(tab[t])'
  <2>1. CASE c.kind = "me"
    BY <1>1, <1>3, <2>1 DEF Signed
  <2>2. CASE c.kind # "me"
    BY <1>1, <1>2, <2>2 DEF Signed
  <2> QED BY <2>1, <2>2
<1>7. ASSUME NEW e \in calls' PROVE Own(e)'
  <2>1. e \in calls /\ e # c /\ e.tab = t /\ Own(e)
    BY <1>1, <1>5, <1>7 DEF Calm
  <2>2. CASE c.kind # "me"
    BY <1>1, <2>1, <2>2, OwnKept
  <2>3. CASE c.kind = "me"
    <3>1. e.kind \in {"login", "me", "profile", "left"}
      BY <2>1 DEF TypeOK, Calls
    <3>2. e.kind = c.kind /\ c.kind \in {"me", "login"} => e = c
      BY <1>5, <2>1 DEF Calm
    <3>3. e.kind = "left"
      BY <1>3, <2>1, <2>3, <3>1, <3>2 DEF Own
    <3> QED BY <2>1, <3>3 DEF Own
  <2> QED BY <2>2, <2>3
<1>8. \A e, f \in calls' : e.kind = f.kind /\ e.kind \in {"me", "login"} => e = f
  BY <1>1, <1>5 DEF Calm
<1> QED BY <1>1, <1>2, <1>4, <1>6, <1>7, <1>8, CalmAgain

\* What the administrator changes is neither a name nor anything in the browser.
LEMMA ChangeCalm ==
  ASSUME TypeOK, Calm, NEW u \in Accounts, Change(u)
  PROVE  Calm'
<1>1. /\ calls' = calls /\ tab' = tab /\ token' = token
      /\ \A v \in Accounts : row'[v].name = row[v].name
  BY DEF Change, TypeOK
<1> QED BY <1>1 DEF Calm, Blank, Signed, Own

-----------------------------------------------------------------------------
LEMMA InitSession ==
  ASSUME SessionAssumption, Init
  PROVE  SessionInv
<1>1. portal \in Roles /\ "list" \in Routes(portal) /\ "list" \in Pages
  BY RoutesServed DEF Init, SessionAssumption
<1>2. Empty("list") \in Views
  BY <1>1, Cleaned
<1>3. row \in [Accounts -> [active : BOOLEAN, role : Roles, name : Names]]
  BY <1>1 DEF Init, Names
<1>4. TypeOK
  BY <1>2, <1>3 DEF Init, TypeOK
<1>5. \A t \in Tabs : tab[t] = Empty("list")
  BY DEF Init
<1>6. /\ Empty("list").page = "list" /\ Empty("list").user = NoUser
      /\ Empty("list").form = NoName
  BY DEF Empty
<1>7. PagesKept /\ FormsOwned /\ NoTokenUnattended
  BY <1>1, <1>5, <1>6 DEF PagesKept, FormsOwned, NoTokenUnattended, Init
<1>8. \A t \in Tabs : Blank(t) /\ Signed(tab[t])
  BY <1>5, <1>6 DEF Blank, Signed, Init
<1>9. \A u \in Accounts : row[u].name = Registered
  BY DEF Init
<1>10. calls = {}
  BY DEF Init
<1>11. Calm
  BY <1>8, <1>9, <1>10 DEF Calm
<1> QED BY <1>4, <1>7, <1>11 DEF SessionInv

LEMMA NextSession ==
  ASSUME SessionAssumption, SessionInv, [Next]_vars
  PROVE  SessionInv'
<1>1. TypeOK' /\ PagesKept' /\ FormsOwned' /\ NoTokenUnattended'
  BY NextKept DEF SessionInv
<1>2. calm' = calm
  BY DEF Next, vars, Load, Login, Logout, Visit, TypeName, SaveProfile, Serve, Answered,
         Failed, Change
<1>3. ASSUME calm PROVE Calm'
  <2>1. TypeOK /\ FormsOwned /\ Calm
    BY <1>3 DEF SessionInv
  <2>2. ASSUME NEW t \in Tabs, Load(t) PROVE Calm'
    BY <1>3, <2>1, <2>2, LoadCalm
  <2>3. ASSUME NEW t \in Tabs, NEW u \in Accounts, Login(t, u) PROVE Calm'
    BY <1>3, <2>1, <2>3, LoginCalm
  <2>4. ASSUME NEW t \in Tabs, Logout(t) PROVE Calm'
    BY <1>3, <2>1, <2>4, LogoutCalm
  <2>5. ASSUME NEW t \in Tabs, NEW opened \in Visited, Visit(t, opened) PROVE Calm'
    BY <1>3, <2>1, <2>5, VisitCalm
  <2>6. ASSUME NEW t \in Tabs, TypeName(t) PROVE Calm'
    BY <1>3, <2>1, <2>6, TypeNameCalm
  <2>7. ASSUME NEW t \in Tabs, SaveProfile(t) PROVE Calm'
    BY <1>3, <2>1, <2>7, SaveCalm
  <2>8. ASSUME NEW c \in calls, Serve(c) PROVE Calm'
    BY <1>3, <2>1, <2>8, ServeCalm
  <2>9. ASSUME NEW c \in calls, Answered(c) PROVE Calm'
    BY <1>3, <2>1, <2>9, AnsweredCalm
  <2>10. ASSUME NEW c \in calls, Failed(c) PROVE Calm'
    BY <1>3, <2>1, <2>10, FailedCalm
  <2>11. ASSUME NEW u \in Accounts, Change(u) PROVE Calm'
    BY <1>3, <2>1, <2>11, ChangeCalm
  <2>12. CASE UNCHANGED vars
    BY <2>1, <2>12 DEF vars, Calm, Blank, Signed, Own
  <2> QED BY <2>2, <2>3, <2>4, <2>5, <2>6, <2>7, <2>8, <2>9, <2>10, <2>11, <2>12 DEF Next
<1> QED BY <1>1, <1>2, <1>3 DEF SessionInv

\* The inductive invariant: the pages open in any browser exist and are the portal's own, a
\* token is attended to, and in a browser where one tab is used every request acts as the
\* person shown (auth.tsx, packages/api-client).
THEOREM SessionInductive ==
  ASSUME SessionAssumption
  PROVE  Spec => []SessionInv
<1>1. Init => SessionInv
  BY InitSession
<1>2. SessionInv /\ [Next]_vars => SessionInv'
  BY NextSession
<1> QED BY <1>1, <1>2, PTL DEF Spec

LEMMA InvSession ==
  ASSUME SessionAssumption, SessionInv
  PROVE  SessionHolds
<1>1. OneSession
  BY DEF SessionInv, Calm, Signed, OneSession
<1>2. NoTokenUnattended
  BY DEF SessionInv
<1>3. portal \in Roles
  BY DEF SessionInv, TypeOK, SessionAssumption
<1>4. PagesServed
  BY <1>3, RoutesServed DEF SessionInv, PagesKept, PagesServed
<1> QED BY <1>1, <1>2, <1>4 DEF SessionHolds

\* For any people, tabs and portals: while one tab is used what a tab shows and who its
\* requests act as are one person, and every stored name is its own account's; a token is
\* never left where every tab asks to sign in; and nobody is shown a page their role is
\* refused (auth.tsx, RoleApp.tsx, ProfilePage.tsx, auth.controller.ts).
THEOREM SessionSound ==
  ASSUME SessionAssumption
  PROVE  Spec => []SessionHolds
<1>1. SessionInv => SessionHolds
  BY InvSession
<1> QED BY <1>1, SessionInductive, PTL

-----------------------------------------------------------------------------
(***************************************************************************)
(* The inductive invariant.  A path is given out once, and from then on it *)
(* is one document's: that of the row it was stored for.                   *)
(***************************************************************************)

\* The files to come still have paths.
PathsLeft == stored + Cardinality(Reserved) <= MaxFiles

\* What is on disk or named by a row was stored; two rows never name one file.
RowsApart ==
  /\ \A p \in files : p <= stored
  /\ \A d \in Existing : doc[d].path <= stored
  /\ \A d, e \in Existing : doc[d].path = doc[e].path => d = e

\* A file that was stored and is not named yet is there and nobody else's.
Holds(r) == req[r].step \in {"insert", "drop", "update"}

UnnamedKept ==
  \A r \in Requests : Holds(r) =>
    /\ req[r].path \in files /\ req[r].path <= stored
    /\ \A d \in Existing : doc[d].path # req[r].path
    /\ \A q \in Requests : Holds(q) /\ req[q].path = req[r].path => q = r

\* The file a request is about to remove is named by no row but the one it read.
MayDrop(r) == req[r].step \in {"save", "drop", "delete", "unlink"}

DropsOwn ==
  \A r \in Requests : MayDrop(r) =>
    /\ req[r].old <= stored
    /\ \A d \in Existing : doc[d].path = req[r].old =>
         req[r].step # "unlink" /\ req[r].id = d
    /\ \A q \in Requests : Holds(q) => req[q].path # req[r].old

DocumentsInv ==
  DocumentsTypeOK /\ PathsLeft /\ RowsApart /\ UnnamedKept /\ DropsOwn /\ MissingOnlyWhileReplaced

-----------------------------------------------------------------------------
(***************************************************************************)
(* Requests.                                                               *)
(***************************************************************************)

\* The record a request keeps is told by its step.
LEMMA RequestKinds ==
  ASSUME DocumentsTypeOK, NEW r \in Requests
  PROVE  /\ req[r].step = "insert" => req[r] \in Inserts
         /\ req[r].step = "save" => req[r] \in Saves
         /\ req[r].step \in {"drop", "update"} => req[r] \in Updates
         /\ req[r].step = "delete" => req[r] \in Deletes
         /\ req[r].step = "unlink" => req[r] \in Unlinks
         /\ req[r].step = "attach" => req[r] \in Sends
         /\ req[r].step = "detach" => req[r].ids \subseteq Paths
BY DEF DocumentsTypeOK, RequestStates, Idle, Inserts, Saves, Updates, Deletes, Unlinks,
       Sends, Unsends

\* One request changes; how many still have a file to store.
Rewrites(r, new) == req' = [req EXCEPT ![r] = new]

Stores(state) == state.step \in {"save", "attach"}

LEMMA ReservedCount ==
  ASSUME DocumentsAssumption, DocumentsTypeOK, NEW r \in Requests, NEW new, Rewrites(r, new)
  PROVE  /\ Cardinality(Reserved) \in Nat /\ Cardinality(Reserved') \in Nat
         /\ Stores(new) <=> Stores(req[r]) => Cardinality(Reserved') = Cardinality(Reserved)
         /\ Stores(new) /\ ~Stores(req[r]) =>
              Cardinality(Reserved') = Cardinality(Reserved) + 1
         /\ ~Stores(new) /\ Stores(req[r]) =>
              Cardinality(Reserved) = Cardinality(Reserved') + 1
<1>1. \A q \in Requests : req'[q] = IF q = r THEN new ELSE req[q]
  BY DEF Rewrites, DocumentsTypeOK
<1>2. IsFiniteSet(Reserved) /\ IsFiniteSet(Reserved')
  <2>1. Reserved \subseteq Requests /\ Reserved' \subseteq Requests
    BY DEF Reserved
  <2> QED BY <2>1, FS_Subset DEF DocumentsAssumption
<1>3. Cardinality(Reserved) \in Nat /\ Cardinality(Reserved') \in Nat
  BY <1>2, FS_CardinalityType
<1>4. ASSUME Stores(new) <=> Stores(req[r])
      PROVE  Cardinality(Reserved') = Cardinality(Reserved)
  <2>1. Reserved' = Reserved
    BY <1>1, <1>4 DEF Reserved, Stores
  <2> QED BY <2>1
<1>5. ASSUME Stores(new), ~Stores(req[r])
      PROVE  Cardinality(Reserved') = Cardinality(Reserved) + 1
  <2>1. Reserved' = Reserved \union {r} /\ r \notin Reserved
    BY <1>1, <1>5 DEF Reserved, Stores
  <2> QED BY <1>2, <2>1, FS_AddElement
<1>6. ASSUME ~Stores(new), Stores(req[r])
      PROVE  Cardinality(Reserved) = Cardinality(Reserved') + 1
  <2>1. Reserved' = Reserved \ {r} /\ r \in Reserved
    BY <1>1, <1>6 DEF Reserved, Stores
  <2> QED BY <1>2, <1>3, <2>1, FS_RemoveElement
<1> QED BY <1>3, <1>4, <1>5, <1>6

LEMMA OneChanges ==
  ASSUME DocumentsTypeOK, NEW r \in Requests, NEW new \in RequestStates, Rewrites(r, new)
  PROVE  /\ req' \in [Requests -> RequestStates]
         /\ req'[r] = new
         /\ \A q \in Requests : q # r => req'[q] = req[q]
BY DEF Rewrites, DocumentsTypeOK

\* Paths are numbers.
LEMMA PathNumbers ==
  ASSUME DocumentsAssumption, DocumentsTypeOK
  PROVE  /\ stored \in Nat /\ \A p \in files : p \in Nat
         /\ \A d \in Existing : d \in Paths /\ doc[d] \in Rows /\ doc[d].path \in Nat
         /\ \A r \in Requests : Holds(r) => req[r].path \in Nat
         /\ \A r \in Requests : MayDrop(r) => req[r].old \in Nat
<1>1. Paths \subseteq Nat
  BY DEF Paths
<1>2. stored \in Nat /\ \A p \in files : p \in Nat
  BY <1>1 DEF DocumentsTypeOK, DocumentsAssumption
<1>3. \A d \in Existing : d \in Paths /\ doc[d] \in Rows /\ doc[d].path \in Nat
  BY <1>1 DEF DocumentsTypeOK, Existing, Rows
<1>4. \A r \in Requests : Holds(r) => req[r].path \in Nat
  BY <1>1, RequestKinds DEF Holds, Inserts, Updates
<1>5. \A r \in Requests : MayDrop(r) => req[r].old \in Nat
  BY <1>1, RequestKinds DEF MayDrop, Saves, Updates, Deletes, Unlinks
<1> QED BY <1>2, <1>3, <1>4, <1>5

-----------------------------------------------------------------------------
(***************************************************************************)
(* Every action keeps the invariant.                                       *)
(***************************************************************************)
LEMMA UploadKeeps ==
  ASSUME DocumentsAssumption, DocumentsInv, NEW r \in Requests, NEW u \in Users,
         ReceiveUpload(r, u)
  PROVE  DocumentsInv'
<1>1. PICK new : new = [step |-> "insert", path |-> stored + 1, by |-> u, attached |-> FALSE]
  OBVIOUS
<1>2. /\ Rewrites(r, new) /\ stored' = stored + 1 /\ files' = files \union {stored + 1}
      /\ UNCHANGED <<doc, chat, aborted>> /\ req[r] = Idle
      /\ stored + Cardinality(Reserved) < MaxFiles
  BY <1>1 DEF ReceiveUpload, SaveFile, Fresh, Goto, Rewrites, HasFreePath
<1>3. DocumentsTypeOK /\ stored \in Nat /\ MaxFiles \in Nat
  BY DEF DocumentsInv, DocumentsTypeOK, DocumentsAssumption
<1>4. req[r].step = "idle" /\ new.step = "insert" /\ new.path = stored + 1
  BY <1>1, <1>2 DEF Idle
<1>5. Cardinality(Reserved) \in Nat /\ Cardinality(Reserved') = Cardinality(Reserved)
  BY <1>2, <1>3, <1>4, ReservedCount DEF Stores
<1>6. stored + 1 \in Paths
  BY <1>2, <1>3, <1>5 DEF Paths
<1>7. new \in RequestStates
  BY <1>1, <1>6 DEF RequestStates, Inserts
<1>8. /\ req' \in [Requests -> RequestStates] /\ req'[r] = new
      /\ \A q \in Requests : q # r => req'[q] = req[q]
  BY <1>2, <1>3, <1>7, OneChanges
<1>9. DocumentsTypeOK' /\ PathsLeft'
  BY <1>2, <1>3, <1>5, <1>6, <1>8 DEF DocumentsTypeOK, PathsLeft
<1>10. RowsApart'
  BY <1>2, <1>3, PathNumbers DEF DocumentsInv, RowsApart, Existing
<1>11. UnnamedKept'
  BY <1>2, <1>3, <1>4, <1>8, PathNumbers
  DEF DocumentsInv, RowsApart, UnnamedKept, Holds, Existing
<1>12. DropsOwn'
  BY <1>2, <1>3, <1>4, <1>8, PathNumbers DEF DocumentsInv, DropsOwn, MayDrop, Holds, Existing
<1>13. MissingOnlyWhileReplaced'
  BY <1>2, <1>4, <1>8 DEF DocumentsInv, MissingOnlyWhileReplaced, Existing
<1> QED BY <1>9, <1>10, <1>11, <1>12, <1>13 DEF DocumentsInv

\* The insert: the row takes the path its request held.
LEMMA InsertKeeps ==
  ASSUME DocumentsAssumption, DocumentsInv, NEW r \in Requests, InsertDoc(r)
  PROVE  DocumentsInv'
<1>1. /\ Rewrites(r, Idle) /\ UNCHANGED <<files, stored, chat, aborted>>
      /\ req[r].step = "insert"
  BY DEF InsertDoc, End, Goto, Rewrites
<1>2. DocumentsTypeOK /\ req[r] \in Inserts
  BY <1>1, RequestKinds DEF DocumentsInv
<1>3. PICK path : path = req[r].path
  OBVIOUS
<1>4. PICK new : new = [path |-> path, by |-> req[r].by, attached |-> req[r].attached]
  OBVIOUS
<1>5. new \in Rows /\ new.path = path /\ path \in Paths
  BY <1>2, <1>3, <1>4 DEF Rows, Inserts
<1>6. doc' = doc \/ doc' = [doc EXCEPT ![path] = new]
  BY <1>3, <1>4 DEF InsertDoc
<1>7. Idle.step = "idle" /\ Idle \in RequestStates
  BY DEF Idle, RequestStates
<1>8. /\ req' \in [Requests -> RequestStates] /\ req'[r] = Idle
      /\ \A q \in Requests : q # r => req'[q] = req[q]
  BY <1>1, <1>2, <1>7, OneChanges
<1>9. /\ doc' \in [Paths -> Rows \union {NoDoc}]
      /\ \A d \in Existing' : (d \in Existing /\ doc'[d] = doc[d]) \/ (d = path /\ doc'[d] = new)
  BY <1>2, <1>5, <1>6 DEF DocumentsTypeOK, Existing
<1>10. /\ path \in files /\ path <= stored /\ \A d \in Existing : doc[d].path # path
       /\ \A q \in Requests : q # r /\ Holds(q) => req[q].path # path
       /\ \A q \in Requests : MayDrop(q) => req[q].old # path
  BY <1>1, <1>3 DEF DocumentsInv, UnnamedKept, DropsOwn, Holds
<1>11. /\ Cardinality(Reserved) \in Nat
       /\ Cardinality(Reserved') = Cardinality(Reserved)
  BY <1>1, <1>2, <1>7, ReservedCount DEF Stores
<1>12. DocumentsTypeOK' /\ PathsLeft'
  BY <1>1, <1>2, <1>8, <1>9, <1>11 DEF DocumentsTypeOK, PathsLeft, DocumentsInv
<1>13. RowsApart'
  BY <1>1, <1>5, <1>9, <1>10 DEF DocumentsInv, RowsApart
<1>14. UnnamedKept'
  BY <1>1, <1>5, <1>7, <1>8, <1>9, <1>10 DEF DocumentsInv, UnnamedKept, Holds
<1>15. DropsOwn'
  BY <1>1, <1>5, <1>7, <1>8, <1>9, <1>10 DEF DocumentsInv, DropsOwn, MayDrop, Holds
<1>16. MissingOnlyWhileReplaced'
  BY <1>1, <1>5, <1>7, <1>8, <1>9, <1>10 DEF DocumentsInv, MissingOnlyWhileReplaced
<1> QED BY <1>12, <1>13, <1>14, <1>15, <1>16 DEF DocumentsInv

\* A request that reads a row (replace, remove) keeps the path of that row.
LEMMA CheckKeeps ==
  ASSUME DocumentsAssumption, DocumentsInv, NEW r \in Requests, NEW u \in Users, NEW d \in Paths,
         CheckReplace(r, u, d) \/ CheckRemove(r, u, d)
  PROVE  DocumentsInv'
<1>1. /\ UNCHANGED <<doc, files, stored, chat, aborted>> /\ req[r] = Idle /\ d \in Existing
  BY DEF CheckReplace, CheckRemove, Begin
<1>2. PICK old : old = doc[d].path
  OBVIOUS
<1>3. PICK replace \in BOOLEAN : replace = CheckReplace(r, u, d)
  BY Zenon DEF CheckReplace
<1>4. PICK new : new = IF replace THEN [step |-> "save", id |-> d, by |-> u, old |-> old]
                       ELSE [step |-> "delete", id |-> d, old |-> old]
  OBVIOUS
<1>5. Rewrites(r, new)
  BY <1>2, <1>3, <1>4 DEF CheckReplace, CheckRemove, Begin, Goto, Rewrites
<1>6. DocumentsTypeOK /\ old \in Paths
  BY <1>1, <1>2 DEF DocumentsInv, DocumentsTypeOK, Existing, Rows
<1>7. new \in RequestStates
  BY <1>4, <1>6 DEF RequestStates, Saves, Deletes
<1>8. /\ new.step \in {"save", "delete"} /\ new.old = old /\ new.id = d
      /\ replace <=> new.step = "save"
  BY <1>4
<1>9. /\ req' \in [Requests -> RequestStates] /\ req'[r] = new
      /\ \A q \in Requests : q # r => req'[q] = req[q]
  BY <1>5, <1>6, <1>7, OneChanges
<1>10. req[r].step = "idle"
  BY <1>1 DEF Idle
<1>11. PathsLeft'
  <2>1. CASE replace
    <3>1. Cardinality(Reserved') = Cardinality(Reserved) + 1 /\ Cardinality(Reserved) \in Nat
      BY <1>5, <1>6, <1>8, <1>10, <2>1, ReservedCount DEF Stores
    <3>2. stored + Cardinality(Reserved) < MaxFiles
      BY <1>3, <2>1 DEF CheckReplace, HasFreePath
    <3> QED BY <1>1, <1>6, <3>1, <3>2, PathNumbers DEF PathsLeft, DocumentsAssumption
  <2>2. CASE ~replace
    <3>1. Cardinality(Reserved') = Cardinality(Reserved)
      BY <1>5, <1>6, <1>8, <1>10, <2>2, ReservedCount DEF Stores
    <3> QED BY <1>1, <3>1 DEF PathsLeft, DocumentsInv
  <2> QED BY <2>1, <2>2
<1>12. DocumentsTypeOK' /\ RowsApart'
  BY <1>1, <1>6, <1>9 DEF DocumentsTypeOK, RowsApart, DocumentsInv, Existing
<1>13. UnnamedKept'
  BY <1>1, <1>8, <1>9, <1>10 DEF DocumentsInv, UnnamedKept, Holds, Existing
<1>14. DropsOwn'
  <2>1. /\ old <= stored /\ \A e \in Existing : doc[e].path = old => e = d
        /\ \A q \in Requests : Holds(q) => req[q].path # old
    BY <1>1, <1>2 DEF DocumentsInv, RowsApart, UnnamedKept
  <2> QED BY <1>1, <1>8, <1>9, <1>10, <2>1 DEF DocumentsInv, DropsOwn, MayDrop, Holds, Existing
<1>15. MissingOnlyWhileReplaced'
  BY <1>1, <1>8, <1>9, <1>10 DEF DocumentsInv, MissingOnlyWhileReplaced, Existing
<1> QED BY <1>11, <1>12, <1>13, <1>14, <1>15 DEF DocumentsInv

\* The new file of a replace, and the file of an attachment.
LEMMA SaveKeeps ==
  ASSUME DocumentsAssumption, DocumentsInv, NEW r \in Requests, SaveNew(r) \/ AttachFile(r)
  PROVE  DocumentsInv'
<1>1. /\ stored' = stored + 1 /\ files' = files \union {stored + 1}
      /\ UNCHANGED <<doc, chat, aborted>> /\ req[r].step \in {"save", "attach"}
  BY DEF SaveNew, AttachFile, SaveFile, Fresh
<1>2. DocumentsTypeOK /\ stored \in Nat /\ MaxFiles \in Nat
  BY DEF DocumentsInv, DocumentsTypeOK, DocumentsAssumption
<1>3. \E new : /\ Rewrites(r, new) /\ new.step \in {"insert", "drop"} /\ new.path = stored + 1
               /\ stored + 1 \in Paths => new \in RequestStates
               /\ new.step = "drop" => /\ req[r].step = "save"
                                       /\ new.old = req[r].old /\ new.id = req[r].id
  <2>1. CASE req[r].step = "save"
    <3>1. PICK new : new = [step |-> "drop", id |-> req[r].id, by |-> req[r].by,
                            old |-> req[r].old, path |-> stored + 1]
      OBVIOUS
    <3>2. Rewrites(r, new)
      BY <2>1, <3>1 DEF SaveNew, AttachFile, SaveFile, Fresh, Goto, Rewrites
    <3>3. req[r] \in Saves
      BY <1>2, <2>1, RequestKinds
    <3>4. stored + 1 \in Paths => new \in Updates
      BY <3>1, <3>3 DEF Saves, Updates
    <3>5. /\ new.step = "drop" /\ new.path = stored + 1 /\ new.old = req[r].old
          /\ new.id = req[r].id
      BY <3>1
    <3> QED BY <2>1, <3>2, <3>4, <3>5 DEF RequestStates
  <2>2. CASE req[r].step = "attach"
    <3>1. PICK new : new = [step |-> "insert", path |-> stored + 1, by |-> req[r].by,
                            attached |-> TRUE]
      OBVIOUS
    <3>2. Rewrites(r, new)
      BY <2>2, <3>1 DEF SaveNew, AttachFile, SaveFile, Fresh, Goto, Rewrites
    <3>3. req[r] \in Sends
      BY <1>2, <2>2, RequestKinds
    <3>4. stored + 1 \in Paths => new \in Inserts
      BY <3>1, <3>3 DEF Sends, Inserts
    <3>5. new.step = "insert" /\ new.path = stored + 1
      BY <3>1
    <3> QED BY <3>2, <3>4, <3>5 DEF RequestStates
  <2> QED BY <1>1, <2>1, <2>2
<1>4. PICK new : /\ Rewrites(r, new) /\ new.step \in {"insert", "drop"} /\ new.path = stored + 1
                 /\ stored + 1 \in Paths => new \in RequestStates
                 /\ new.step = "drop" => /\ req[r].step = "save"
                                         /\ new.old = req[r].old /\ new.id = req[r].id
  BY <1>3
<1>5. /\ Cardinality(Reserved) = Cardinality(Reserved') + 1
      /\ Cardinality(Reserved) \in Nat /\ Cardinality(Reserved') \in Nat
  BY <1>1, <1>2, <1>4, ReservedCount DEF Stores
<1>6. stored + 1 \in Paths /\ PathsLeft'
  BY <1>1, <1>2, <1>5 DEF Paths, PathsLeft, DocumentsInv
<1>7. /\ req' \in [Requests -> RequestStates] /\ req'[r] = new
      /\ \A q \in Requests : q # r => req'[q] = req[q]
  BY <1>2, <1>4, <1>6, OneChanges
<1>8. DocumentsTypeOK'
  BY <1>1, <1>2, <1>6, <1>7 DEF DocumentsTypeOK, Paths
<1>9. RowsApart'
  BY <1>1, <1>2, PathNumbers DEF DocumentsInv, RowsApart, Existing
<1>10. UnnamedKept'
  BY <1>1, <1>2, <1>4, <1>7, PathNumbers
  DEF DocumentsInv, RowsApart, UnnamedKept, Holds, Existing
<1>11. DropsOwn'
  BY <1>1, <1>2, <1>4, <1>7, PathNumbers DEF DocumentsInv, DropsOwn, MayDrop, Holds, Existing
<1>12. MissingOnlyWhileReplaced'
  BY <1>1, <1>4, <1>7 DEF DocumentsInv, MissingOnlyWhileReplaced, Existing
<1> QED BY <1>6, <1>8, <1>9, <1>10, <1>11, <1>12 DEF DocumentsInv

\* A step that stores and removes no file and renames no row, and leaves its request with
\* nothing to store, to name or to remove.
LEMMA PlainKeeps ==
  ASSUME DocumentsAssumption, DocumentsInv, NEW r \in Requests, NEW new \in RequestStates,
         Rewrites(r, new), new.step \in {"idle", "detach", "unsend"},
         UNCHANGED <<files, stored>>, chat' \in {"none", "there", "gone"},
         doc' \in [Paths -> Rows \union {NoDoc}],
         \A d \in Existing' : d \in Existing /\ doc'[d].path = doc[d].path,
         aborted' \in BOOLEAN, aborted' \/ (req[r].step # "update" /\ aborted' = aborted)
  PROVE  DocumentsInv'
<1>1. DocumentsTypeOK
  BY DEF DocumentsInv
<1>2. /\ req' \in [Requests -> RequestStates] /\ req'[r] = new
      /\ \A q \in Requests : q # r => req'[q] = req[q]
  BY <1>1, OneChanges
<1>3. /\ Cardinality(Reserved) \in Nat /\ Cardinality(Reserved') \in Nat
      /\ Cardinality(Reserved') <= Cardinality(Reserved)
  BY <1>1, ReservedCount DEF Stores
<1>4. DocumentsTypeOK' /\ PathsLeft'
  BY <1>1, <1>2, <1>3 DEF DocumentsTypeOK, PathsLeft, DocumentsInv, DocumentsAssumption
<1>5. RowsApart'
  BY DEF DocumentsInv, RowsApart
<1>6. UnnamedKept'
  BY <1>2 DEF DocumentsInv, UnnamedKept, Holds
<1>7. DropsOwn'
  BY <1>2 DEF DocumentsInv, DropsOwn, MayDrop, Holds
<1>8. MissingOnlyWhileReplaced'
  BY <1>2 DEF DocumentsInv, MissingOnlyWhileReplaced
<1> QED BY <1>4, <1>5, <1>6, <1>7, <1>8 DEF DocumentsInv

\* A message comes and goes, with the rows attached to it.
LEMMA MessageKeeps ==
  ASSUME DocumentsAssumption, DocumentsInv, NEW r \in Requests,
         CheckUnsend(r) \/ DetachDocs(r) \/ DeleteMessage(r)
  PROVE  DocumentsInv'
<1>1. DocumentsTypeOK /\ Idle \in RequestStates /\ Idle.step = "idle"
  BY DEF DocumentsInv, RequestStates, Idle
<1>2. CASE CheckUnsend(r)
  <2>1. PICK new : new = [step |-> "detach", ids |-> Attachments]
    OBVIOUS
  <2>2. new \in RequestStates /\ new.step = "detach"
    BY <2>1 DEF RequestStates, Unsends, Attachments, Existing
  <2>3. /\ Rewrites(r, new) /\ req[r].step = "idle"
        /\ UNCHANGED <<doc, files, stored, chat, aborted>>
    BY <1>1, <1>2, <2>1 DEF CheckUnsend, Begin, Goto, Rewrites
  <2> QED BY <1>1, <2>2, <2>3, PlainKeeps DEF DocumentsTypeOK, Existing
<1>3. CASE DetachDocs(r)
  <2>1. PICK new : new = [step |-> "unsend"]
    OBVIOUS
  <2>2. new \in RequestStates /\ new.step = "unsend"
    BY <2>1 DEF RequestStates, Unsends
  <2>3. /\ Rewrites(r, new) /\ req[r].step = "detach" /\ UNCHANGED <<files, stored, chat, aborted>>
        /\ doc' = [d \in Paths |-> IF d \in req[r].ids THEN NoDoc ELSE doc[d]]
    BY <1>3, <2>1 DEF DetachDocs, Goto, Rewrites
  <2>4. doc' \in [Paths -> Rows \union {NoDoc}]
    BY <1>1, <2>3 DEF DocumentsTypeOK
  <2>5. \A d \in Existing' : d \in Existing /\ doc'[d].path = doc[d].path
    BY <2>3 DEF Existing
  <2> QED BY <1>1, <2>2, <2>3, <2>4, <2>5, PlainKeeps DEF DocumentsTypeOK
<1>4. CASE DeleteMessage(r)
  <2>1. /\ Rewrites(r, Idle) /\ req[r].step = "unsend" /\ UNCHANGED <<files, stored, aborted>>
        /\ chat' = "gone"
        /\ doc' = [d \in Paths |-> IF d \in Attachments THEN [doc[d] EXCEPT !.attached = FALSE]
                                   ELSE doc[d]]
    BY <1>4 DEF DeleteMessage, End, Goto, Rewrites
  <2>2. ASSUME NEW entry \in Rows
        PROVE  [entry EXCEPT !.attached = FALSE] \in Rows
                 /\ [entry EXCEPT !.attached = FALSE].path = entry.path
    BY DEF Rows
  <2>3. ASSUME NEW d \in Paths
        PROVE  /\ doc'[d] \in Rows \union {NoDoc}
               /\ d \in Existing' => d \in Existing /\ doc'[d].path = doc[d].path
    <3>1. CASE d \in Attachments
      <4>1. doc'[d] = [doc[d] EXCEPT !.attached = FALSE] /\ d \in Existing /\ doc[d] \in Rows
        BY <1>1, <2>1, <3>1 DEF Attachments, Existing, DocumentsTypeOK
      <4> QED BY <2>2, <4>1
    <3>2. CASE d \notin Attachments
      BY <1>1, <2>1, <3>2 DEF Existing, DocumentsTypeOK
    <3> QED BY <3>1, <3>2
  <2>4. doc' \in [Paths -> Rows \union {NoDoc}]
    BY <2>1, <2>3
  <2>5. \A d \in Existing' : d \in Existing /\ doc'[d].path = doc[d].path
    BY <2>3 DEF Existing
  <2> QED BY <1>1, <2>1, <2>4, <2>5, PlainKeeps DEF DocumentsTypeOK
<1> QED BY <1>2, <1>3, <1>4

LEMMA SendKeeps ==
  ASSUME DocumentsAssumption, DocumentsInv, NEW r \in Requests, NEW u \in Users,
         SendMessage(r, u)
  PROVE  DocumentsInv'
<1>1. PICK new : new = [step |-> "attach", by |-> u]
  OBVIOUS
<1>2. /\ Rewrites(r, new) /\ chat' = "there" /\ UNCHANGED <<doc, files, stored, aborted>>
      /\ req[r].step = "idle" /\ stored + Cardinality(Reserved) < MaxFiles
  BY <1>1 DEF SendMessage, Begin, Goto, Rewrites, Idle, HasFreePath
<1>3. DocumentsTypeOK /\ new \in RequestStates /\ new.step = "attach"
  BY <1>1 DEF DocumentsInv, RequestStates, Sends
<1>4. /\ req' \in [Requests -> RequestStates] /\ req'[r] = new
      /\ \A q \in Requests : q # r => req'[q] = req[q]
  BY <1>2, <1>3, OneChanges
<1>5. Cardinality(Reserved) \in Nat /\ Cardinality(Reserved') = Cardinality(Reserved) + 1
  BY <1>2, <1>3, ReservedCount DEF Stores
<1>6. DocumentsTypeOK' /\ PathsLeft'
  BY <1>2, <1>3, <1>4, <1>5 DEF DocumentsTypeOK, PathsLeft, DocumentsAssumption
<1>7. RowsApart'
  BY <1>2 DEF DocumentsInv, RowsApart, Existing
<1>8. UnnamedKept'
  BY <1>2, <1>3, <1>4 DEF DocumentsInv, UnnamedKept, Holds, Existing
<1>9. DropsOwn'
  BY <1>2, <1>3, <1>4 DEF DocumentsInv, DropsOwn, MayDrop, Holds, Existing
<1>10. MissingOnlyWhileReplaced'
  BY <1>2, <1>4 DEF DocumentsInv, MissingOnlyWhileReplaced, Existing
<1> QED BY <1>6, <1>7, <1>8, <1>9, <1>10 DEF DocumentsInv

LEMMA AbortKeeps ==
  ASSUME DocumentsAssumption, DocumentsInv, NEW r \in Requests, AbortRequest(r)
  PROVE  DocumentsInv'
<1>1. Idle \in RequestStates /\ Idle.step = "idle"
  BY DEF RequestStates, Idle
<1>2. Rewrites(r, Idle) /\ UNCHANGED <<doc, files, stored, chat>> /\ aborted' = TRUE
  BY DEF AbortRequest, End, Goto, Rewrites
<1> QED BY <1>1, <1>2, PlainKeeps DEF DocumentsInv, DocumentsTypeOK, Existing

\* The old file goes: only the row that is about to be updated may have named it.
LEMMA DropKeeps ==
  ASSUME DocumentsAssumption, DocumentsInv, NEW r \in Requests, DropOld(r)
  PROVE  DocumentsInv'
<1>1. PICK new : new = [req[r] EXCEPT !.step = "update"]
  OBVIOUS
<1>2. /\ Rewrites(r, new) /\ files' = files \ {req[r].old} /\ req[r].step = "drop"
      /\ UNCHANGED <<doc, stored, chat, aborted>>
  BY <1>1 DEF DropOld, Goto, Rewrites
<1>3. DocumentsTypeOK /\ req[r] \in Updates
  BY <1>2, RequestKinds DEF DocumentsInv
<1>4. /\ new \in RequestStates /\ new.step = "update" /\ new.path = req[r].path
      /\ new.id = req[r].id
  BY <1>1, <1>3 DEF RequestStates, Updates
<1>5. /\ req' \in [Requests -> RequestStates] /\ req'[r] = new
      /\ \A q \in Requests : q # r => req'[q] = req[q]
  BY <1>2, <1>3, <1>4, OneChanges
<1>6. Cardinality(Reserved') = Cardinality(Reserved)
  BY <1>2, <1>3, <1>4, ReservedCount DEF Stores
<1>7. DocumentsTypeOK' /\ PathsLeft'
  BY <1>2, <1>3, <1>5, <1>6 DEF DocumentsTypeOK, PathsLeft, DocumentsInv
<1>8. RowsApart'
  BY <1>2 DEF DocumentsInv, RowsApart, Existing
<1>9. /\ \A d \in Existing : doc[d].path = req[r].old => req[r].id = d
      /\ \A q \in Requests : Holds(q) => req[q].path # req[r].old
  BY <1>2 DEF DocumentsInv, DropsOwn, MayDrop
<1>10. UnnamedKept'
  BY <1>2, <1>4, <1>5, <1>9 DEF DocumentsInv, UnnamedKept, Holds, Existing
<1>11. DropsOwn'
  BY <1>2, <1>4, <1>5 DEF DocumentsInv, DropsOwn, MayDrop, Holds, Existing
<1>12. MissingOnlyWhileReplaced'
  BY <1>2, <1>4, <1>5, <1>9 DEF DocumentsInv, MissingOnlyWhileReplaced, Existing
<1> QED BY <1>7, <1>8, <1>10, <1>11, <1>12 DEF DocumentsInv

\* The row is given the new file, unless it is gone.
LEMMA UpdateKeeps ==
  ASSUME DocumentsAssumption, DocumentsInv, NEW r \in Requests, UpdateDoc(r)
  PROVE  DocumentsInv'
<1>1. /\ Rewrites(r, Idle) /\ UNCHANGED <<files, stored, chat, aborted>>
      /\ req[r].step = "update"
  BY DEF UpdateDoc, End, Goto, Rewrites
<1>2. DocumentsTypeOK /\ req[r] \in Updates /\ Idle.step = "idle" /\ Idle \in RequestStates
  BY <1>1, RequestKinds DEF DocumentsInv, RequestStates, Idle
<1>3. PICK path, d : path = req[r].path /\ d = req[r].id
  OBVIOUS
<1>4. /\ path \in Paths /\ d \in Paths
      /\ \A entry \in Rows :
           /\ [entry EXCEPT !.path = path, !.by = req[r].by] \in Rows
           /\ [entry EXCEPT !.path = path, !.by = req[r].by].path = path
  BY <1>2, <1>3 DEF Rows, Updates
<1>5. /\ doc' \in [Paths -> Rows \union {NoDoc}]
      /\ Existing' = Existing
      /\ \A e \in Existing : e # d => doc'[e] = doc[e]
      /\ d \in Existing => doc'[d].path = path
  <2>1. CASE d \notin Existing
    BY <1>2, <1>3, <2>1 DEF UpdateDoc, DocumentsTypeOK, Existing
  <2>2. CASE d \in Existing
    <3>1. PICK new : new = [doc[d] EXCEPT !.path = path, !.by = req[r].by]
      OBVIOUS
    <3>2. doc[d] \in Rows
      BY <1>2, <2>2 DEF DocumentsTypeOK, Existing
    <3>3. new \in Rows /\ new.path = path
      BY <1>4, <3>1, <3>2
    <3>4. doc' = [doc EXCEPT ![d] = new]
      BY <1>2, <1>3, <1>4, <2>2, <3>1 DEF UpdateDoc, DocumentsTypeOK
    <3>5. new # NoDoc
      BY <3>3 DEF DocumentsAssumption
    <3> QED BY <1>2, <1>4, <2>2, <3>3, <3>4, <3>5 DEF DocumentsTypeOK, Existing
  <2> QED BY <2>1, <2>2
<1>6. /\ req' \in [Requests -> RequestStates] /\ req'[r] = Idle
      /\ \A q \in Requests : q # r => req'[q] = req[q]
  BY <1>1, <1>2, OneChanges
<1>7. Cardinality(Reserved') = Cardinality(Reserved)
  BY <1>1, <1>2, ReservedCount DEF Stores
<1>8. DocumentsTypeOK' /\ PathsLeft'
  BY <1>1, <1>2, <1>5, <1>6, <1>7 DEF DocumentsTypeOK, PathsLeft, DocumentsInv
<1>9. /\ path \in files /\ path <= stored /\ \A e \in Existing : doc[e].path # path
      /\ \A q \in Requests : q # r /\ Holds(q) => req[q].path # path
      /\ \A q \in Requests : MayDrop(q) => req[q].old # path
  BY <1>1, <1>3 DEF DocumentsInv, UnnamedKept, DropsOwn, Holds
<1>10. RowsApart'
  BY <1>1, <1>5, <1>9 DEF DocumentsInv, RowsApart
<1>11. UnnamedKept'
  BY <1>1, <1>2, <1>5, <1>6, <1>9 DEF DocumentsInv, UnnamedKept, Holds
<1>12. DropsOwn'
  BY <1>1, <1>2, <1>5, <1>6, <1>9 DEF DocumentsInv, DropsOwn, MayDrop, Holds
<1>13. MissingOnlyWhileReplaced'
  BY <1>1, <1>2, <1>3, <1>5, <1>6, <1>9 DEF DocumentsInv, MissingOnlyWhileReplaced
<1> QED BY <1>8, <1>10, <1>11, <1>12, <1>13 DEF DocumentsInv

\* The row goes first; its file is then nobody's.
LEMMA DeleteKeeps ==
  ASSUME DocumentsAssumption, DocumentsInv, NEW r \in Requests, DeleteDoc(r)
  PROVE  DocumentsInv'
<1>1. DocumentsTypeOK /\ req[r] \in Deletes /\ req[r].step = "delete"
  BY RequestKinds DEF DocumentsInv, DeleteDoc
<1>2. UNCHANGED <<files, stored, chat, aborted>>
  BY DEF DeleteDoc
<1>3. CASE req[r].id \notin Existing
  <2>1. Rewrites(r, Idle) /\ doc' = doc
    BY <1>3 DEF DeleteDoc, End, Goto, Rewrites
  <2>2. Idle \in RequestStates /\ Idle.step = "idle"
    BY DEF RequestStates, Idle
  <2> QED BY <1>1, <1>2, <2>1, <2>2, PlainKeeps DEF DocumentsTypeOK, Existing
<1>4. CASE req[r].id \in Existing
  <2>1. PICK new, d : new = [step |-> "unlink", old |-> req[r].old] /\ d = req[r].id
    OBVIOUS
  <2>2. /\ new \in RequestStates /\ new.step = "unlink" /\ new.old = req[r].old
        /\ d \in Paths
    BY <1>1, <2>1 DEF RequestStates, Unlinks, Deletes
  <2>3. Rewrites(r, new) /\ doc' = [doc EXCEPT ![d] = NoDoc]
    BY <1>4, <2>1 DEF DeleteDoc, Goto, Rewrites
  <2>4. /\ doc' \in [Paths -> Rows \union {NoDoc}]
        /\ Existing' = Existing \ {d}
        /\ \A e \in Existing' : doc'[e] = doc[e]
    BY <1>1, <2>2, <2>3 DEF DocumentsTypeOK, Existing
  <2>5. /\ req' \in [Requests -> RequestStates] /\ req'[r] = new
        /\ \A q \in Requests : q # r => req'[q] = req[q]
    BY <1>1, <2>2, <2>3, OneChanges
  <2>6. Cardinality(Reserved') = Cardinality(Reserved)
    BY <1>1, <2>2, <2>3, ReservedCount DEF Stores
  <2>7. DocumentsTypeOK' /\ PathsLeft'
    BY <1>1, <1>2, <2>4, <2>5, <2>6 DEF DocumentsTypeOK, PathsLeft, DocumentsInv
  <2>8. RowsApart'
    BY <1>2, <2>4 DEF DocumentsInv, RowsApart
  <2>9. UnnamedKept'
    BY <1>2, <2>2, <2>4, <2>5 DEF DocumentsInv, UnnamedKept, Holds
  <2>10. DropsOwn'
    BY <1>1, <1>2, <2>1, <2>2, <2>4, <2>5 DEF DocumentsInv, DropsOwn, MayDrop, Holds
  <2>11. MissingOnlyWhileReplaced'
    BY <1>1, <1>2, <2>2, <2>4, <2>5 DEF DocumentsInv, MissingOnlyWhileReplaced
  <2> QED BY <2>7, <2>8, <2>9, <2>10, <2>11 DEF DocumentsInv
<1> QED BY <1>3, <1>4

LEMMA UnlinkKeeps ==
  ASSUME DocumentsAssumption, DocumentsInv, NEW r \in Requests, UnlinkFile(r)
  PROVE  DocumentsInv'
<1>1. /\ Rewrites(r, Idle) /\ files' = files \ {req[r].old} /\ req[r].step = "unlink"
      /\ UNCHANGED <<doc, stored, chat, aborted>>
  BY DEF UnlinkFile, End, Goto, Rewrites
<1>2. DocumentsTypeOK /\ Idle.step = "idle" /\ Idle \in RequestStates
  BY DEF DocumentsInv, RequestStates, Idle
<1>3. /\ req' \in [Requests -> RequestStates] /\ req'[r] = Idle
      /\ \A q \in Requests : q # r => req'[q] = req[q]
  BY <1>1, <1>2, OneChanges
<1>4. Cardinality(Reserved') = Cardinality(Reserved)
  BY <1>1, <1>2, ReservedCount DEF Stores
<1>5. DocumentsTypeOK' /\ PathsLeft'
  BY <1>1, <1>2, <1>3, <1>4 DEF DocumentsTypeOK, PathsLeft, DocumentsInv
<1>6. RowsApart'
  BY <1>1 DEF DocumentsInv, RowsApart, Existing
<1>7. /\ \A d \in Existing : doc[d].path # req[r].old
      /\ \A q \in Requests : Holds(q) => req[q].path # req[r].old
  BY <1>1 DEF DocumentsInv, DropsOwn, MayDrop
<1>8. UnnamedKept'
  BY <1>1, <1>2, <1>3, <1>7 DEF DocumentsInv, UnnamedKept, Holds, Existing
<1>9. DropsOwn'
  BY <1>1, <1>2, <1>3 DEF DocumentsInv, DropsOwn, MayDrop, Holds, Existing
<1>10. MissingOnlyWhileReplaced'
  BY <1>1, <1>2, <1>3, <1>7 DEF DocumentsInv, MissingOnlyWhileReplaced, Existing
<1> QED BY <1>5, <1>6, <1>8, <1>9, <1>10 DEF DocumentsInv

-----------------------------------------------------------------------------
LEMMA InitDocuments ==
  ASSUME DocumentsAssumption, DocumentsInit
  PROVE  DocumentsInv
<1>1. Idle \in RequestStates /\ Idle.step = "idle"
  BY DEF RequestStates, Idle
<1>2. DocumentsTypeOK
  <2>1. /\ doc \in [Paths -> Rows \union {NoDoc}] /\ files \subseteq Paths
        /\ req \in [Requests -> RequestStates]
    BY <1>1 DEF DocumentsInit
  <2>2. stored \in 0..MaxFiles
    BY DEF DocumentsInit, DocumentsAssumption
  <2> QED BY <2>1, <2>2 DEF DocumentsInit, DocumentsTypeOK
<1>3. Existing = {} /\ Reserved = {}
  BY <1>1 DEF DocumentsInit, Existing, Reserved
<1>4. PathsLeft
  BY <1>3, FS_EmptySet DEF DocumentsInit, PathsLeft, DocumentsAssumption
<1>5. RowsApart /\ UnnamedKept /\ DropsOwn /\ MissingOnlyWhileReplaced
  BY <1>1, <1>3
  DEF DocumentsInit, RowsApart, UnnamedKept, Holds, DropsOwn, MayDrop, MissingOnlyWhileReplaced
<1> QED BY <1>2, <1>4, <1>5 DEF DocumentsInv

LEMMA NextDocuments ==
  ASSUME DocumentsAssumption, DocumentsInv, [DocumentsNext]_documentsVars
  PROVE  DocumentsInv'
<1>1. ASSUME NEW r \in Requests, Receive(r) PROVE DocumentsInv'
  BY <1>1, UploadKeeps, SendKeeps, CheckKeeps, MessageKeeps DEF Receive
<1>2. ASSUME NEW r \in Requests, Advance(r) PROVE DocumentsInv'
  BY <1>2, InsertKeeps, SaveKeeps, DropKeeps, UpdateKeeps, DeleteKeeps, UnlinkKeeps,
     MessageKeeps DEF Advance
<1>3. ASSUME NEW r \in Requests, AbortRequest(r) PROVE DocumentsInv'
  BY <1>3, AbortKeeps
<1>4. CASE UNCHANGED documentsVars
  BY <1>4 DEF documentsVars, DocumentsInv, DocumentsTypeOK, PathsLeft, Reserved, RowsApart, Existing,
              UnnamedKept, Holds, DropsOwn, MayDrop, MissingOnlyWhileReplaced
<1> QED BY <1>1, <1>2, <1>3, <1>4 DEF DocumentsNext

\* The inductive invariant: a stored file belongs to one row for good, and what a request
\* will remove, or has stored and not named yet, is no other row's (documents.service.ts,
\* send and remove of messages.module.ts).
THEOREM DocumentsInductive ==
  ASSUME DocumentsAssumption
  PROVE  DocumentsSpec => []DocumentsInv
<1>1. DocumentsInit => DocumentsInv
  BY InitDocuments
<1>2. DocumentsInv /\ [DocumentsNext]_documentsVars => DocumentsInv'
  BY NextDocuments
<1> QED BY <1>1, <1>2, PTL DEF DocumentsSpec

\* For any number of requests and files: a row's file is on disk, except in the moment of
\* the replace that is about to rename it, until a request dies half-way (replace, remove,
\* upload of documents.service.ts; the attachments of a removed message).
THEOREM FilesStay ==
  ASSUME DocumentsAssumption
  PROVE  DocumentsSpec => []MissingOnlyWhileReplaced
<1>1. DocumentsInv => MissingOnlyWhileReplaced
  BY DEF DocumentsInv
<1> QED BY <1>1, DocumentsInductive, PTL

-----------------------------------------------------------------------------
(***************************************************************************)
(* Conversations.  ChatInv is inductive: whatever is typed, asked for or   *)
(* stored belongs to the conversation it was typed in, and until an answer *)
(* is lost a word is in one message, or in one request that will store it. *)
(***************************************************************************)
MessageTypes == [thread : H!Threads, text : Nat, files : SUBSET Nat, to : Addressees,
                 copy : BOOLEAN, alive : BOOLEAN]

BoxTypes == [text : Nat, files : SUBSET Nat, to : Addressees, editing : Nat, edit : Nat,
             deleting : Nat]

CallTypes == [op : {"send", "save", "edit", "delete"}, thread : H!Threads, id : Nat, text : Nat,
              files : SUBSET Nat, to : Addressees, mine : BOOLEAN, no : Nat]

ChatTypes ==
  /\ list \in {"loading", "failed", "loaded"} /\ active \in H!Threads \union {NoThread}
  /\ typed \in Seq([in : H!Threads, of : Nat]) /\ messages \in Seq(MessageTypes)
  /\ box \in BoxTypes /\ sending \in SUBSET CallTypes /\ sent \in Nat

\* The words of the composer, of a request or of a message.
Words(x) == ({x.text} \ {0}) \union x.files

\* A word was typed in a conversation, over one of its messages or for a new one.
TypedIn(w, t, m) == w \in DOMAIN typed /\ typed[w].in = t /\ typed[w].of \in {0, m}

OfThread(m, t) == m \in H!Originals /\ messages[m].thread = t

\* The composer and the editor hold what was typed in the thread that is open.
BoxInv ==
  /\ \A w \in Words(box) : TypedIn(w, H!Selected, 0)
  /\ box.editing # 0 =>
       /\ OfThread(box.editing, H!Selected)
       /\ box.edit # 0 => TypedIn(box.edit, H!Selected, box.editing)

FeedInv ==
  /\ feed.editable \subseteq feed.listed /\ feed.listed \subseteq DOMAIN messages
  /\ \A m \in feed.listed : messages[m].thread = H!Selected

\* A request acts on the conversation it was made in, and answers to that one alone.
Addressed(q) ==
  /\ q.mine => q.thread = H!Selected
  /\ q.op = "send" => \A w \in Words(q) : TypedIn(w, q.thread, 0)
  /\ q.op = "edit" => OfThread(q.id, q.thread) /\ TypedIn(q.text, q.thread, q.id)

CallsInv == \A q \in sending : Addressed(q)

MessagesInv ==
  /\ \A m \in DOMAIN messages : messages[m].copy => messages[m].thread = OwnThread
  /\ \A m \in H!Originals : \A w \in Words(messages[m]) : TypedIn(w, messages[m].thread, m)

\* A message has a word, or is about to be given it.
Held(w, m) ==
  \/ w \in Words(messages[m])
  \/ w = box.edit /\ box.editing = m
  \/ \E q \in sending : q.op = "edit" /\ q.id = m /\ q.text = w

OnTheWay == {q \in sending : q.op = "send"}

\* A word is on one way to one message; it is in the composer meanwhile only where the
\* composer waits for the answer.
Once(w) ==
  /\ \A p, q \in OnTheWay : w \in Words(p) /\ w \in Words(q) => p = q
  /\ \A m, n \in H!Originals : Held(w, m) /\ Held(w, n) => m = n
  /\ \A q \in OnTheWay : w \in Words(q) /\ w \in Words(box) => q.mine /\ H!Selected \in CaseThreads
  /\ \A m \in H!Originals :
       Held(w, m) => w \notin Words(box) /\ \A q \in OnTheWay : w \notin Words(q)

OnceInv == \A w \in DOMAIN typed : Once(w)

ChatInv ==
  /\ ChatTypes /\ BoxInv /\ FeedInv /\ CallsInv /\ MessagesInv
  /\ lost \/ OnceInv

-----------------------------------------------------------------------------
(***************************************************************************)
(* What a step keeps.                                                      *)
(***************************************************************************)
\* No message leaves its conversation, and no word the place it was typed at.
Kept ==
  /\ H!Originals \subseteq H!Originals' /\ DOMAIN messages \subseteq DOMAIN messages'
  /\ \A m \in DOMAIN messages : messages'[m].thread = messages[m].thread
  /\ DOMAIN typed \subseteq DOMAIN typed' /\ \A w \in DOMAIN typed : typed'[w] = typed[w]

LEMMA KeptPlaces ==
  ASSUME Kept
  PROVE  /\ \A w, t, m : TypedIn(w, t, m) => (TypedIn(w, t, m))'
         /\ \A m, t : OfThread(m, t) => (OfThread(m, t))'
BY DEF Kept, TypedIn, OfThread, H!Originals

LEMMA KeptSame ==
  ASSUME UNCHANGED <<messages, typed>>
  PROVE  Kept
BY DEF Kept, H!Originals

LEMMA BoxKept ==
  ASSUME BoxInv, Kept, H!Selected' = H!Selected,
         Words(box') \subseteq Words(box),
         box'.editing \in {0, box.editing}, box'.edit \in {0, box.edit}
  PROVE  BoxInv'
<1>1. ASSUME NEW w \in Words(box') PROVE (TypedIn(w, H!Selected, 0))'
  BY <1>1, KeptPlaces DEF BoxInv
<1>2. ASSUME box'.editing # 0
      PROVE  /\ (OfThread(box.editing, H!Selected))'
             /\ box'.edit # 0 => (TypedIn(box.edit, H!Selected, box.editing))'
  <2>1. box'.editing = box.editing /\ box.editing # 0
    BY <1>2
  <2>2. OfThread(box.editing, H!Selected)
    BY <2>1 DEF BoxInv
  <2>3. messages'[box.editing].thread = messages[box.editing].thread /\ box.editing \in H!Originals'
    BY <2>2 DEF OfThread, Kept, H!Originals
  <2>4. (OfThread(box.editing, H!Selected))'
    BY <2>1, <2>2, <2>3 DEF OfThread
  <2>5. ASSUME box'.edit # 0 PROVE (TypedIn(box.edit, H!Selected, box.editing))'
    <3>1. box'.edit = box.edit /\ TypedIn(box.edit, H!Selected, box.editing)
      BY <2>1, <2>5 DEF BoxInv
    <3> QED BY <2>1, <3>1 DEF TypedIn, Kept
  <2> QED BY <2>4, <2>5
<1>3. \A w \in Words(box') : (TypedIn(w, H!Selected, 0))'
  BY <1>1
<1> QED BY <1>2, <1>3 DEF BoxInv, Words, TypedIn, OfThread

LEMMA FeedKept ==
  ASSUME FeedInv, Kept, H!Selected' = H!Selected, feed' = feed
  PROVE  FeedInv'
BY DEF FeedInv, Kept

LEMMA CallsKept ==
  ASSUME CallsInv, Kept, H!Selected' = H!Selected,
         \A q \in sending' \ sending : (Addressed(q))'
  PROVE  CallsInv'
<1>1. ASSUME NEW q \in sending PROVE (Addressed(q))'
  <2>1. Addressed(q)
    BY DEF CallsInv
  <2> QED BY <2>1, KeptPlaces DEF Addressed
<1> QED BY <1>1 DEF CallsInv

LEMMA MessagesKept ==
  ASSUME MessagesInv, Kept, messages' = messages
  PROVE  MessagesInv'
<1>1. H!Originals' = H!Originals
  BY DEF H!Originals
<1>2. ASSUME NEW m \in H!Originals, NEW w \in Words(messages[m])
      PROVE  (TypedIn(w, messages[m].thread, m))'
  BY <1>2, KeptPlaces DEF MessagesInv, TypedIn, Kept
<1> QED BY <1>1, <1>2 DEF MessagesInv

\* Nothing gets a word it did not have.
LEMMA Fewer ==
  ASSUME NEW w, Once(w), H!Selected' = H!Selected,
         w \in Words(box') => w \in Words(box), OnTheWay' \subseteq OnTheWay,
         \A m \in H!Originals' : (Held(w, m))' => m \in H!Originals /\ Held(w, m)
  PROVE  (Once(w))'
BY DEF Once

LEMMA SamePlace ==
  ASSUME UNCHANGED H!place
  PROVE  H!Selected' = H!Selected
BY DEF H!place, H!Selected

LEMMA OpenThread ==
  ASSUME H!ChatAssumption, ChatTypes, H!Open
  PROVE  H!Selected \in H!Threads
BY DEF H!ChatAssumption, ChatTypes, H!Open, H!Selected, H!Threads

\* Words and messages are numbered from one.
LEMMA Numbered ==
  ASSUME ChatTypes
  PROVE  /\ \A w \in DOMAIN typed : w \in Nat \ {0}
         /\ \A m \in H!Originals : m \in Nat \ {0}
         /\ DOMAIN typed = 1..Len(typed) /\ DOMAIN messages = 1..Len(messages)
         /\ Len(typed) \in Nat /\ Len(messages) \in Nat
BY DEF ChatTypes, H!Originals

-----------------------------------------------------------------------------
(***************************************************************************)
(* The composer, the editor and the dialog.                                *)
(***************************************************************************)
LEMMA LessInBox ==
  ASSUME ChatInv, UNCHANGED <<H!place, feed, messages, sending, typed, sent, lost>>,
         box' \in BoxTypes, Words(box') \subseteq Words(box),
         box'.editing \in {0, box.editing}, box'.edit \in {0, box.edit}
  PROVE  ChatInv'
<1>1. ChatTypes'
  BY DEF ChatInv, ChatTypes, H!place
<1>2. H!Selected' = H!Selected /\ Kept
  BY SamePlace, KeptSame
<1>3. BoxInv' /\ FeedInv' /\ CallsInv' /\ MessagesInv'
  BY <1>2, BoxKept, FeedKept, CallsKept, MessagesKept DEF ChatInv
<1>4. ASSUME OnceInv PROVE OnceInv'
  <2>1. ASSUME NEW w \in DOMAIN typed PROVE (Once(w))'
    <3>1. OnTheWay' = OnTheWay /\ H!Originals' = H!Originals
      BY DEF OnTheWay, H!Originals
    <3>2. ASSUME NEW m \in H!Originals, (Held(w, m))' PROVE Held(w, m)
      <4>1. w # 0 /\ m # 0
        BY Numbered DEF ChatInv
      <4> QED BY <3>2, <4>1 DEF Held
    <3>3. Once(w)
      BY <1>4 DEF OnceInv
    <3> QED BY <1>2, <3>1, <3>2, <3>3, Fewer
  <2> QED BY <2>1 DEF OnceInv
<1> QED BY <1>1, <1>3, <1>4 DEF ChatInv

LEMMA DropFileKeeps ==
  ASSUME ChatInv, H!DropFile
  PROVE  ChatInv'
<1>1. PICK f \in box.files : box' = [box EXCEPT !.files = @ \ {f}]
  BY DEF H!DropFile
<1>2. box \in BoxTypes
  BY DEF ChatInv, ChatTypes
<1>3. /\ box' \in BoxTypes /\ Words(box') \subseteq Words(box)
      /\ box'.editing = box.editing /\ box'.edit = box.edit
  BY <1>1, <1>2 DEF BoxTypes, Words
<1> QED BY <1>3, LessInBox DEF H!server, H!DropFile

LEMMA AddressKeeps ==
  ASSUME ChatInv, NEW to \in Addressees, H!Address(to)
  PROVE  ChatInv'
<1>1. box \in BoxTypes
  BY DEF ChatInv, ChatTypes
<1>2. /\ box' \in BoxTypes /\ Words(box') \subseteq Words(box)
      /\ box'.editing = box.editing /\ box'.edit = box.edit
  BY <1>1 DEF H!Address, BoxTypes, Words
<1> QED BY <1>2, LessInBox DEF H!server, H!Address

LEMMA CancelEditKeeps ==
  ASSUME ChatInv, H!CancelEdit
  PROVE  ChatInv'
<1>1. box \in BoxTypes
  BY DEF ChatInv, ChatTypes
<1>2. /\ box' \in BoxTypes /\ Words(box') \subseteq Words(box)
      /\ box'.editing = 0 /\ box'.edit = box.edit
  BY <1>1 DEF H!CancelEdit, BoxTypes, Words
<1> QED BY <1>2, LessInBox DEF H!server, H!CancelEdit

LEMMA DialogKeeps ==
  ASSUME ChatInv, H!CloseDialog \/ \E m \in DOMAIN messages : H!AskDelete(m)
  PROVE  ChatInv'
<1>1. box \in BoxTypes /\ DOMAIN messages \subseteq Nat
  BY Numbered DEF ChatInv, ChatTypes
<1>2. PICK m \in Nat : box' = [box EXCEPT !.deleting = m]
  BY <1>1 DEF H!CloseDialog, H!AskDelete
<1>3. /\ box' \in BoxTypes /\ Words(box') \subseteq Words(box)
      /\ box'.editing = box.editing /\ box'.edit = box.edit
  BY <1>1, <1>2 DEF BoxTypes, Words
<1> QED BY <1>3, LessInBox DEF H!server, H!CloseDialog, H!AskDelete

\* The editor is filled with the words of the message.
LEMMA StartEditKeeps ==
  ASSUME H!ChatAssumption, ChatInv, NEW m \in DOMAIN messages, H!StartEdit(m)
  PROVE  ChatInv'
<1>1. /\ box \in BoxTypes /\ messages \in Seq(MessageTypes) /\ messages[m] \in MessageTypes
      /\ m \in Nat \ {0}
  BY Numbered DEF ChatInv, ChatTypes
<1>2. /\ box' = [[box EXCEPT !.editing = m] EXCEPT !.edit = messages[m].text]
      /\ UNCHANGED <<H!place, feed, messages, sending, typed, sent, lost>>
  BY <1>1 DEF H!StartEdit, H!server, BoxTypes
<1>3. /\ box' \in BoxTypes /\ Words(box') = Words(box)
      /\ box'.editing = m /\ box'.edit = messages[m].text
  BY <1>1, <1>2 DEF BoxTypes, MessageTypes, Words
<1>4. ChatTypes'
  BY <1>2, <1>3 DEF ChatInv, ChatTypes, H!place
<1>5. H!Selected' = H!Selected /\ Kept /\ H!Originals' = H!Originals
  BY <1>2, SamePlace, KeptSame DEF H!Originals
<1>6. FeedInv' /\ CallsInv' /\ MessagesInv'
  BY <1>2, <1>5, FeedKept, CallsKept, MessagesKept DEF ChatInv
<1>7. OfThread(m, H!Selected)
  <2>1. m \in feed.listed /\ messages[m].thread = H!Selected /\ H!Selected \in CaseThreads
    BY DEF H!StartEdit, ChatInv, FeedInv, H!InCase
  <2>2. ~messages[m].copy
    BY <1>1, <2>1 DEF ChatInv, MessagesInv, H!ChatAssumption
  <2> QED BY <2>1, <2>2 DEF OfThread, H!Originals
<1>8. box'.edit # 0 => TypedIn(box'.edit, H!Selected, m)
  BY <1>3, <1>7 DEF ChatInv, MessagesInv, OfThread, Words
<1>9. BoxInv'
  <2>1. \A w \in Words(box') : (TypedIn(w, H!Selected, 0))'
    BY <1>2, <1>3, <1>5 DEF ChatInv, BoxInv, TypedIn
  <2>2. (OfThread(box.editing, H!Selected))'
    BY <1>2, <1>3, <1>5, <1>7 DEF OfThread
  <2>3. box'.edit # 0 => (TypedIn(box.edit, H!Selected, box.editing))'
    BY <1>2, <1>3, <1>5, <1>8 DEF TypedIn
  <2> QED BY <2>1, <2>2, <2>3 DEF BoxInv, Words
<1>10. ASSUME OnceInv PROVE OnceInv'
  <2>1. ASSUME NEW w \in DOMAIN typed PROVE (Once(w))'
    <3>1. OnTheWay' = OnTheWay
      BY <1>2 DEF OnTheWay
    <3>2. ASSUME NEW n \in H!Originals, (Held(w, n))' PROVE Held(w, n)
      <4>1. w # 0
        BY Numbered DEF ChatInv
      <4> QED BY <1>2, <1>3, <3>2, <4>1 DEF Held, Words
    <3>3. Once(w)
      BY <1>10 DEF OnceInv
    <3> QED BY <1>3, <1>5, <3>1, <3>2, <3>3, Fewer
  <2> QED BY <1>2, <2>1 DEF OnceInv
<1> QED BY <1>2, <1>4, <1>6, <1>9, <1>10 DEF ChatInv

-----------------------------------------------------------------------------
(***************************************************************************)
(* A new word.                                                             *)
(***************************************************************************)
\* The word is new everywhere.
LEMMA NewWord ==
  ASSUME ChatInv, NEW new, new = Len(typed) + 1
  PROVE  /\ new \notin DOMAIN typed /\ new \in Nat \ {0}
         /\ new \notin Words(box)
         /\ box.editing # 0 => new # box.edit
         /\ \A q \in OnTheWay : new \notin Words(q)
         /\ \A q \in sending : q.op = "edit" => new # q.text
         /\ \A m \in H!Originals : new \notin Words(messages[m])
<1>1. new \notin DOMAIN typed /\ new \in Nat \ {0}
  BY Numbered DEF ChatInv
<1>2. new \notin Words(box) /\ (box.editing # 0 => new # box.edit)
  BY <1>1 DEF ChatInv, BoxInv, TypedIn
<1>3. /\ \A q \in OnTheWay : new \notin Words(q)
      /\ \A q \in sending : q.op = "edit" => new # q.text
  BY <1>1 DEF ChatInv, CallsInv, Addressed, TypedIn, OnTheWay
<1>4. \A m \in H!Originals : new \notin Words(messages[m])
  BY <1>1 DEF ChatInv, MessagesInv, TypedIn
<1> QED BY <1>1, <1>2, <1>3, <1>4

LEMMA WordTyped ==
  ASSUME H!ChatAssumption, ChatInv, NEW m \in Nat, H!Open, H!Word(m),
         NEW new, new = Len(typed) + 1,
         UNCHANGED <<messages, H!place>>
  PROVE  /\ typed' \in Seq([in : H!Threads, of : Nat])
         /\ Len(typed') = new /\ DOMAIN typed' = DOMAIN typed \union {new}
         /\ (TypedIn(new, H!Selected, m))' /\ Kept
<1>1. H!Selected \in H!Threads /\ typed \in Seq([in : H!Threads, of : Nat])
  BY OpenThread DEF ChatInv, ChatTypes
<1>2. [in |-> H!Selected, of |-> m] \in [in : H!Threads, of : Nat]
  BY <1>1
<1>3. typed' = Append(typed, [in |-> H!Selected, of |-> m])
  BY DEF H!Word
<1> HIDE DEF H!Word
<1>4. /\ typed' \in Seq([in : H!Threads, of : Nat])
      /\ Len(typed') = new /\ DOMAIN typed' = DOMAIN typed \union {new}
      /\ typed'[new] = [in |-> H!Selected, of |-> m]
      /\ \A w \in DOMAIN typed : typed'[w] = typed[w]
  BY <1>1, <1>2, <1>3
<1>5. H!Selected' = H!Selected
  BY SamePlace
<1>6. Kept
  BY <1>4 DEF Kept, H!Originals
<1> QED BY <1>4, <1>5, <1>6 DEF TypedIn

\* What a step that writes leaves alone, whatever it does to the composer.
LEMMA WrittenRest ==
  ASSUME H!ChatAssumption, ChatInv, NEW m \in Nat, H!Open, H!Word(m),
         UNCHANGED <<H!place, feed, messages, sending, sent, lost>>, box' \in BoxTypes
  PROVE  /\ ChatTypes' /\ FeedInv' /\ CallsInv' /\ MessagesInv'
         /\ H!Selected' = H!Selected /\ OnTheWay' = OnTheWay /\ H!Originals' = H!Originals
<1>1. H!Selected' = H!Selected /\ Kept /\ typed' \in Seq([in : H!Threads, of : Nat])
  BY SamePlace, WordTyped
<1>2. ChatTypes'
  BY <1>1 DEF ChatInv, ChatTypes, H!place
<1>3. FeedInv' /\ CallsInv' /\ MessagesInv'
  BY <1>1, FeedKept, CallsKept, MessagesKept DEF ChatInv
<1> QED BY <1>1, <1>2, <1>3 DEF OnTheWay, H!Originals

LEMMA ComposeKeeps ==
  ASSUME H!ChatAssumption, ChatInv, H!TypeText \/ H!PickFile
  PROVE  ChatInv'
<1> PICK new \in Nat : new = Len(typed) + 1
  BY Numbered DEF ChatInv
<1>1. /\ H!Open /\ H!Word(0) /\ UNCHANGED <<H!place, feed, messages, sending, sent, lost>>
      /\ box \in BoxTypes
  BY DEF H!TypeText, H!PickFile, H!server, ChatInv, ChatTypes
<1>2. /\ Len(typed') = new /\ DOMAIN typed' = DOMAIN typed \union {new}
      /\ (TypedIn(new, H!Selected, 0))' /\ Kept /\ new \in Nat
  BY <1>1, WordTyped, NewWord
<1>3. /\ box' \in BoxTypes /\ Words(box') \subseteq Words(box) \union {new}
      /\ box'.editing = box.editing /\ box'.edit = box.edit
  <2>1. CASE H!TypeText
    <3>1. box' = [box EXCEPT !.text = new]
      BY <1>2, <2>1 DEF H!TypeText
    <3> QED BY <1>1, <1>2, <3>1 DEF BoxTypes, Words
  <2>2. CASE H!PickFile
    <3>1. box' = [box EXCEPT !.files = @ \union {new}]
      BY <1>2, <2>2 DEF H!PickFile
    <3> QED BY <1>1, <1>2, <3>1 DEF BoxTypes, Words
  <2> QED BY <2>1, <2>2
<1>4. /\ ChatTypes' /\ FeedInv' /\ CallsInv' /\ MessagesInv'
      /\ H!Selected' = H!Selected /\ OnTheWay' = OnTheWay /\ H!Originals' = H!Originals
  BY <1>1, <1>3, WrittenRest
<1>5. BoxInv'
  <2>1. ASSUME NEW w \in Words(box') PROVE (TypedIn(w, H!Selected, 0))'
    BY <1>2, <1>3, <1>4, <2>1, KeptPlaces DEF ChatInv, BoxInv, TypedIn, Kept
  <2>2. ASSUME box'.editing # 0
        PROVE  /\ (OfThread(box.editing, H!Selected))'
               /\ box'.edit # 0 => (TypedIn(box.edit, H!Selected, box.editing))'
    <3>1. /\ OfThread(box.editing, H!Selected)
          /\ box.edit # 0 => TypedIn(box.edit, H!Selected, box.editing)
      BY <1>3, <2>2 DEF ChatInv, BoxInv
    <3> QED BY <1>1, <1>2, <1>3, <1>4, <3>1 DEF OfThread, TypedIn, Kept
  <2> QED BY <2>1, <2>2 DEF BoxInv, Words, TypedIn, OfThread
<1>6. ASSUME OnceInv PROVE OnceInv'
  <2>1. ASSUME NEW w \in DOMAIN typed PROVE (Once(w))'
    <3>1. w # new /\ Once(w)
      BY <1>6, NewWord DEF OnceInv
    <3>2. ASSUME NEW n \in H!Originals, (Held(w, n))' PROVE Held(w, n)
      BY <1>1, <1>3, <3>2 DEF Held
    <3> QED BY <1>3, <1>4, <3>1, <3>2, Fewer
  <2>2. (Once(new))'
    <3>1. \A q \in OnTheWay' : new \notin Words(q)
      BY <1>4, NewWord
    <3>2. \A n \in H!Originals' : ~(Held(new, n))'
      <4>1. ASSUME NEW n \in H!Originals PROVE ~(Held(new, n))'
        <5>1. n # 0
          BY Numbered DEF ChatInv
        <5> QED BY <1>1, <1>2, <1>3, <5>1, NewWord DEF Held
      <4> QED BY <1>4, <4>1
    <3> QED BY <3>1, <3>2 DEF Once
  <2> QED BY <1>2, <2>1, <2>2 DEF OnceInv
<1> QED BY <1>1, <1>4, <1>5, <1>6 DEF ChatInv

LEMMA TypeEditKeeps ==
  ASSUME H!ChatAssumption, ChatInv, H!TypeEdit
  PROVE  ChatInv'
<1> PICK new \in Nat : new = Len(typed) + 1
  BY Numbered DEF ChatInv
<1> PICK m \in Nat : m = box.editing
  BY DEF ChatInv, ChatTypes, BoxTypes
<1>1. /\ H!Open /\ box \in BoxTypes /\ H!Word(m)
      /\ UNCHANGED <<H!place, feed, messages, sending, sent, lost>>
  BY DEF H!TypeEdit, H!Editing, H!InCase, H!server, ChatInv, ChatTypes, BoxTypes
<1>2. /\ Len(typed') = new /\ DOMAIN typed' = DOMAIN typed \union {new}
      /\ (TypedIn(new, H!Selected, m))' /\ Kept /\ new \in Nat
  BY <1>1, WordTyped, NewWord
<1>3. /\ box' \in BoxTypes /\ Words(box') = Words(box)
      /\ box'.editing = box.editing /\ box'.edit = new
  <2>1. box' = [box EXCEPT !.edit = new]
    BY <1>2 DEF H!TypeEdit
  <2> QED BY <1>1, <1>2, <2>1 DEF BoxTypes, Words
<1>4. /\ ChatTypes' /\ FeedInv' /\ CallsInv' /\ MessagesInv'
      /\ H!Selected' = H!Selected /\ OnTheWay' = OnTheWay /\ H!Originals' = H!Originals
  BY <1>1, <1>3, WrittenRest
<1>5. BoxInv'
  <2>1. ASSUME NEW w \in Words(box') PROVE (TypedIn(w, H!Selected, 0))'
    BY <1>2, <1>3, <1>4, <2>1, KeptPlaces DEF ChatInv, BoxInv, TypedIn, Kept
  <2>2. ASSUME box'.editing # 0
        PROVE  (OfThread(box.editing, H!Selected))'
    <3>1. OfThread(box.editing, H!Selected)
      BY <1>3, <2>2 DEF ChatInv, BoxInv
    <3> QED BY <1>1, <1>2, <1>3, <1>4, <3>1 DEF OfThread, Kept
  <2>3. (TypedIn(box.edit, H!Selected, box.editing))'
    BY <1>2, <1>3, <1>4 DEF TypedIn
  <2> QED BY <2>1, <2>2, <2>3 DEF BoxInv, Words
<1>6. ASSUME OnceInv PROVE OnceInv'
  <2>1. ASSUME NEW w \in DOMAIN typed PROVE (Once(w))'
    <3>1. w # new /\ Once(w)
      BY <1>6, NewWord DEF OnceInv
    <3>2. ASSUME NEW n \in H!Originals, (Held(w, n))' PROVE Held(w, n)
      BY <1>1, <1>3, <3>1, <3>2 DEF Held
    <3> QED BY <1>3, <1>4, <3>1, <3>2, Fewer
  <2>2. (Once(new))'
    <3>1. new \notin Words(box') /\ \A q \in OnTheWay' : new \notin Words(q)
      BY <1>3, <1>4, NewWord
    <3>2. ASSUME NEW n \in H!Originals, (Held(new, n))' PROVE n = m
      <4>1. new \notin Words(messages[n]) /\ \A q \in sending : q.op = "edit" => new # q.text
        BY NewWord
      <4> QED BY <1>1, <1>3, <3>2, <4>1 DEF Held
    <3>3. \A k, n \in H!Originals' : (Held(new, k))' /\ (Held(new, n))' => k = n
      BY <1>4, <3>2
    <3> QED BY <3>1, <3>3 DEF Once
  <2> QED BY <1>2, <2>1, <2>2 DEF OnceInv
<1> QED BY <1>1, <1>4, <1>5, <1>6 DEF ChatInv

-----------------------------------------------------------------------------
(***************************************************************************)
(* Requests.                                                               *)
(***************************************************************************)
\* A request that is made.
LEMMA CallTyped ==
  ASSUME H!ChatAssumption, ChatInv, H!Open,
         NEW op \in {"send", "save", "edit", "delete"}, NEW id \in Nat, NEW text \in Nat,
         H!Call(op, id, text)
  PROVE  /\ sent' \in Nat
         /\ \E q \in CallTypes :
              /\ sending' = sending \union {q} /\ q.op = op /\ q.thread = H!Selected
              /\ q.id = id /\ q.text = text /\ q.mine
              /\ op = "send" => q.files = box.files
<1> DEFINE new == [op |-> op, thread |-> H!Selected, id |-> id, text |-> text,
                   files |-> IF op = "send" THEN box.files ELSE {},
                   to |-> IF op = "send" THEN box.to ELSE "all", mine |-> TRUE, no |-> sent']
<1>1. sent \in Nat /\ box \in BoxTypes /\ H!Selected \in H!Threads
  BY OpenThread DEF ChatInv, ChatTypes
<1>2. sent' \in Nat /\ sending' = sending \union {new}
  BY <1>1 DEF H!Call
<1>3. box.files \in SUBSET Nat /\ box.to \in Addressees /\ "all" \in Addressees
  BY <1>1 DEF BoxTypes, H!ChatAssumption
<1>4. new \in CallTypes
  BY <1>1, <1>2, <1>3 DEF CallTypes
<1>5. /\ new.op = op /\ new.thread = H!Selected /\ new.id = id /\ new.text = text /\ new.mine
      /\ op = "send" => new.files = box.files
  OBVIOUS
<1> HIDE DEF new
<1> QED BY <1>2, <1>4, <1>5

\* A request that stores no new message holds no word the editor does not.
LEMMA OtherCall ==
  ASSUME H!ChatAssumption, ChatInv, H!Open,
         NEW op \in {"save", "edit", "delete"}, NEW id \in Nat, NEW text \in Nat,
         H!Call(op, id, text), UNCHANGED <<H!place, box, feed, messages, typed, lost>>,
         op = "edit" => id = box.editing /\ text = box.edit /\ id # 0 /\ text # 0
  PROVE  ChatInv'
<1>1. PICK q \in CallTypes :
        /\ sending' = sending \union {q} /\ q.op = op /\ q.thread = H!Selected
        /\ q.id = id /\ q.text = text /\ q.mine
  BY CallTyped
<1>2. ChatTypes'
  BY <1>1, CallTyped DEF ChatInv, ChatTypes, H!place
<1>3. H!Selected' = H!Selected /\ Kept
  BY SamePlace, KeptSame
<1>4. (Addressed(q))'
  <2>1. op = "edit" => OfThread(id, H!Selected) /\ TypedIn(text, H!Selected, id)
    BY DEF ChatInv, BoxInv
  <2> QED BY <1>1, <1>3, <2>1, KeptPlaces DEF Addressed
<1>5. BoxInv' /\ FeedInv' /\ CallsInv' /\ MessagesInv'
  <2>1. \A p \in sending' \ sending : (Addressed(p))'
    BY <1>1, <1>4
  <2> QED BY <1>3, <2>1, BoxKept, FeedKept, CallsKept, MessagesKept DEF ChatInv
<1>6. ASSUME OnceInv PROVE OnceInv'
  <2>1. ASSUME NEW w \in DOMAIN typed PROVE (Once(w))'
    <3>1. OnTheWay' = OnTheWay /\ H!Originals' = H!Originals
      BY <1>1 DEF OnTheWay, H!Originals
    <3>2. ASSUME NEW m \in H!Originals, (Held(w, m))' PROVE Held(w, m)
      BY <1>1, <3>2 DEF Held
    <3>3. Once(w)
      BY <1>6 DEF OnceInv
    <3> QED BY <1>3, <3>1, <3>2, <3>3, Fewer
  <2> QED BY <2>1 DEF OnceInv
<1> QED BY <1>2, <1>5, <1>6 DEF ChatInv

LEMMA SaveMessageKeeps ==
  ASSUME H!ChatAssumption, ChatInv, NEW m \in DOMAIN messages, H!SaveMessage(m)
  PROVE  ChatInv'
<1>1. m \in Nat /\ messages[m] \in MessageTypes
  BY Numbered DEF ChatInv, ChatTypes
<1>2. messages[m].text \in Nat
  BY <1>1 DEF MessageTypes
<1> QED BY <1>1, <1>2, OtherCall DEF H!SaveMessage, H!server

LEMMA SaveEditKeeps ==
  ASSUME H!ChatAssumption, ChatInv, H!SaveEdit
  PROVE  ChatInv'
<1>1. PICK id \in Nat, text \in Nat : id = box.editing /\ text = box.edit
  BY DEF ChatInv, ChatTypes, BoxTypes
<1>2. id # 0
  BY <1>1, Numbered DEF H!SaveEdit, H!Editing, ChatInv, FeedInv
<1> QED BY <1>1, <1>2, OtherCall DEF H!SaveEdit, H!Editing, H!InCase, H!server

LEMMA ConfirmDeleteKeeps ==
  ASSUME H!ChatAssumption, ChatInv, H!ConfirmDelete
  PROVE  ChatInv'
<1>1. PICK id \in Nat : id = box.deleting
  BY DEF ChatInv, ChatTypes, BoxTypes
<1> QED BY <1>1, OtherCall DEF H!ConfirmDelete, H!InCase, H!server

\* A message is sent that no other request holds; it stays in the composer only where
\* the composer waits.
LEMMA SendCall ==
  ASSUME H!ChatAssumption, ChatInv, H!Open, NEW text \in Nat, text = box.text,
         H!Call("send", 0, text), UNCHANGED <<H!place, feed, messages, typed, lost>>,
         \A p \in OnTheWay : Words(p) \intersect Words(box) # {} =>
           ~(p.mine /\ H!Selected \in CaseThreads),
         \/ box' = box /\ H!Selected \in CaseThreads
         \/ /\ box' \in BoxTypes /\ Words(box') = {}
            /\ box'.editing = box.editing /\ box'.edit = box.edit
  PROVE  ChatInv'
<1>1. PICK q \in CallTypes :
        /\ sending' = sending \union {q} /\ q.op = "send" /\ q.thread = H!Selected
        /\ q.text = box.text /\ q.mine /\ q.files = box.files
  BY CallTyped
<1>2. Words(q) = Words(box)
  BY <1>1 DEF Words
<1>3. /\ box' \in BoxTypes /\ Words(box') \subseteq Words(box)
      /\ box'.editing = box.editing /\ box'.edit = box.edit
  BY DEF ChatInv, ChatTypes
<1>4. ChatTypes'
  BY <1>1, <1>3, CallTyped DEF ChatInv, ChatTypes, H!place
<1>5. H!Selected' = H!Selected /\ Kept
  BY SamePlace, KeptSame
<1>6. (Addressed(q))'
  BY <1>1, <1>2, <1>5, KeptPlaces DEF Addressed, ChatInv, BoxInv
<1>7. BoxInv' /\ FeedInv' /\ CallsInv' /\ MessagesInv'
  <2>1. \A p \in sending' \ sending : (Addressed(p))'
    BY <1>1, <1>6
  <2> QED BY <1>3, <1>5, <2>1, BoxKept, FeedKept, CallsKept, MessagesKept DEF ChatInv
<1>8. ASSUME OnceInv PROVE OnceInv'
  <2>1. ASSUME NEW w \in DOMAIN typed PROVE (Once(w))'
    <3>1. OnTheWay' = OnTheWay \union {q} /\ H!Originals' = H!Originals
      BY <1>1 DEF OnTheWay, H!Originals
    <3>2. \A m \in H!Originals : (Held(w, m))' => Held(w, m)
      <4>1. ASSUME NEW m \in H!Originals, (Held(w, m))' PROVE Held(w, m)
        BY <1>1, <1>3, <4>1 DEF Held
      <4> QED BY <4>1
    <3>3. Once(w)
      BY <1>8 DEF OnceInv
    <3>4. w \in Words(box) => \A p \in OnTheWay : w \notin Words(p)
      BY <3>3 DEF Once
    <3>5. w \in Words(box') => box' = box /\ H!Selected \in CaseThreads
      OBVIOUS
    <3>6. \A p, r \in OnTheWay' : w \in Words(p) /\ w \in Words(r) => p = r
      BY <1>2, <3>1, <3>3, <3>4 DEF Once
    <3>7. \A m, n \in H!Originals' : (Held(w, m))' /\ (Held(w, n))' => m = n
      BY <3>1, <3>2, <3>3 DEF Once
    <3>8. \A p \in OnTheWay' : w \in Words(p) /\ w \in Words(box') =>
            p.mine /\ H!Selected' \in CaseThreads
      BY <1>1, <1>5, <3>1, <3>3, <3>5 DEF Once
    <3>9. ASSUME NEW m \in H!Originals', (Held(w, m))'
          PROVE  w \notin Words(box') /\ \A p \in OnTheWay' : w \notin Words(p)
      BY <1>2, <1>3, <3>1, <3>2, <3>3, <3>9 DEF Once
    <3> QED BY <3>6, <3>7, <3>8, <3>9 DEF Once
  <2> QED BY <2>1 DEF OnceInv
<1> QED BY <1>4, <1>7, <1>8 DEF ChatInv

LEMMA SendInCaseKeeps ==
  ASSUME H!ChatAssumption, ChatInv, H!SendInCase
  PROVE  ChatInv'
<1>1. PICK text \in Nat : text = box.text
  BY DEF ChatInv, ChatTypes, BoxTypes
<1>2. \A p \in OnTheWay : ~p.mine
  BY DEF H!SendInCase, H!CanSend, H!Pending, OnTheWay
<1> QED BY <1>1, <1>2, SendCall DEF H!SendInCase, H!InCase, H!server

LEMMA SendSimpleKeeps ==
  ASSUME H!ChatAssumption, ChatInv, H!SendSimple
  PROVE  ChatInv'
<1>1. PICK text \in Nat : text = box.text
  BY DEF ChatInv, ChatTypes, BoxTypes
<1>2. box \in BoxTypes /\ H!Selected \notin CaseThreads
  BY DEF ChatInv, ChatTypes, H!SendSimple, H!InCase
<1>3. box' = [[box EXCEPT !.text = 0] EXCEPT !.files = {}]
  BY <1>2 DEF H!SendSimple, BoxTypes
<1>4. /\ box' \in BoxTypes /\ Words(box') = {}
      /\ box'.editing = box.editing /\ box'.edit = box.edit
  BY <1>2, <1>3 DEF BoxTypes, Words
<1> QED BY <1>1, <1>2, <1>4, SendCall DEF H!SendSimple, H!server

\* The thread is read again, or somebody else reads it.
LEMMA ReadKeeps ==
  ASSUME ChatInv, H!Poll \/ \E m \in DOMAIN messages : H!ReadElsewhere(m)
  PROVE  ChatInv'
<1>1. UNCHANGED <<H!place, box, messages, sending, typed, sent, lost>>
  BY DEF H!Poll, H!ReadElsewhere, H!server
<1>2. H!Selected' = H!Selected /\ Kept /\ H!Originals' = H!Originals
  BY <1>1, SamePlace, KeptSame DEF H!Originals
<1>3. ChatTypes' /\ CallsInv' /\ MessagesInv'
  BY <1>1, <1>2, CallsKept, MessagesKept DEF ChatInv, ChatTypes, H!place
<1>4. BoxInv'
  BY <1>1, <1>2, BoxKept DEF ChatInv
<1>5. FeedInv'
  <2>1. CASE H!Poll
    <3> DEFINE own == {m \in H!Alive : messages[m].thread = H!Selected}
    <3>1. feed' = [listed |-> own, editable |-> own \ read] /\ own \subseteq DOMAIN messages
      BY <2>1 DEF H!Poll, H!Alive
    <3>2. feed'.listed = own /\ feed'.editable = own \ read
      BY <3>1
    <3> QED BY <1>1, <1>2, <3>1, <3>2 DEF FeedInv
  <2>2. CASE \E m \in DOMAIN messages : H!ReadElsewhere(m)
    <3>1. feed' = feed
      BY <2>2 DEF H!ReadElsewhere
    <3> QED BY <1>2, <3>1, FeedKept DEF ChatInv
  <2> QED BY <2>1, <2>2
<1>6. ASSUME OnceInv PROVE OnceInv'
  <2>1. ASSUME NEW w \in DOMAIN typed PROVE (Once(w))'
    <3>1. OnTheWay' = OnTheWay /\ \A m \in H!Originals : (Held(w, m))' <=> Held(w, m)
      BY <1>1 DEF OnTheWay, Held
    <3>2. Once(w)
      BY <1>6 DEF OnceInv
    <3> QED BY <1>1, <1>2, <3>1, <3>2, Fewer
  <2> QED BY <1>1, <2>1 DEF OnceInv
<1> QED BY <1>1, <1>3, <1>4, <1>5, <1>6 DEF ChatInv

-----------------------------------------------------------------------------
(***************************************************************************)
(* Another conversation.                                                   *)
(***************************************************************************)
\* The same thread is open still.
LEMMA StayKeeps ==
  ASSUME ChatInv, H!Selected' = H!Selected,
         list' \in {"loading", "failed", "loaded"}, active' \in H!Threads \union {NoThread},
         UNCHANGED <<box, feed, messages, sending, typed, sent, lost>>
  PROVE  ChatInv'
<1>1. Kept /\ H!Originals' = H!Originals
  BY KeptSame DEF H!Originals
<1>2. ChatTypes' /\ BoxInv' /\ FeedInv' /\ CallsInv' /\ MessagesInv'
  BY <1>1, BoxKept, FeedKept, CallsKept, MessagesKept DEF ChatInv, ChatTypes
<1>3. ASSUME OnceInv PROVE OnceInv'
  <2>1. ASSUME NEW w \in DOMAIN typed PROVE (Once(w))'
    <3>1. OnTheWay' = OnTheWay /\ \A m \in H!Originals : (Held(w, m))' <=> Held(w, m)
      BY DEF OnTheWay, Held
    <3>2. Once(w)
      BY <1>3 DEF OnceInv
    <3> QED BY <1>1, <3>1, <3>2, Fewer
  <2> QED BY <2>1 DEF OnceInv
<1> QED BY <1>2, <1>3 DEF ChatInv

\* A thread that is left takes its composer along; its requests go on without it.
LEMMA LeaveKeeps ==
  ASSUME H!ChatAssumption, ChatInv,
         list' \in {"loading", "failed", "loaded"}, active' \in H!Threads \union {NoThread},
         box' = H!Empty, sending' = H!Left, feed' = H!NoFeed,
         UNCHANGED <<messages, typed, sent, lost>>
  PROVE  ChatInv'
<1>1. Kept /\ H!Originals' = H!Originals
  BY KeptSame DEF H!Originals
<1>2. /\ box' \in BoxTypes /\ Words(box') = {} /\ box'.editing = 0 /\ box'.edit = 0
  BY DEF H!Empty, BoxTypes, Words, H!ChatAssumption
<1>3. sending \subseteq CallTypes
  BY DEF ChatInv, ChatTypes
<1>4. ASSUME NEW q \in sending'
      PROVE  /\ q \in CallTypes /\ ~q.mine
             /\ \E p \in sending : /\ q = [p EXCEPT !.mine = FALSE] /\ q.op = p.op
                                   /\ q.thread = p.thread /\ q.id = p.id
                                   /\ q.text = p.text /\ q.files = p.files
  <2>1. PICK p \in sending : q = [p EXCEPT !.mine = FALSE]
    BY <1>4 DEF H!Left
  <2>2. p \in CallTypes
    BY <1>3
  <2>3. /\ q \in CallTypes /\ ~q.mine /\ q.op = p.op /\ q.thread = p.thread /\ q.id = p.id
        /\ q.text = p.text /\ q.files = p.files
    BY <2>1, <2>2 DEF CallTypes
  <2> QED BY <2>1, <2>3
<1>5. ChatTypes'
  <2>1. sending' \in SUBSET CallTypes
    BY <1>4
  <2> QED BY <1>2, <2>1 DEF ChatInv, ChatTypes
<1>6. BoxInv' /\ FeedInv'
  BY <1>2 DEF BoxInv, FeedInv, H!NoFeed
<1>7. CallsInv'
  <2>1. ASSUME NEW q \in sending' PROVE (Addressed(q))'
    <3>1. PICK p \in sending : /\ q.op = p.op /\ q.thread = p.thread /\ q.id = p.id
                               /\ q.text = p.text /\ q.files = p.files
      BY <1>4
    <3>2. Addressed(p)
      BY DEF ChatInv, CallsInv
    <3>3. ~q.mine
      BY <1>4
    <3>4. Words(q) = Words(p)
      BY <3>1 DEF Words
    <3> QED BY <1>1, <3>1, <3>2, <3>3, <3>4, KeptPlaces DEF Addressed
  <2> QED BY <2>1 DEF CallsInv
<1>8. MessagesInv'
  BY <1>1, MessagesKept DEF ChatInv
<1>9. ASSUME OnceInv PROVE OnceInv'
  <2>1. ASSUME NEW w \in DOMAIN typed PROVE (Once(w))'
    <3>1. Once(w)
      BY <1>9 DEF OnceInv
    <3>2. ASSUME NEW q \in OnTheWay'
          PROVE  \E p \in OnTheWay : q = [p EXCEPT !.mine = FALSE] /\ Words(q) = Words(p)
      BY <1>4, <3>2 DEF OnTheWay, Words
    <3>3. ASSUME NEW m \in H!Originals, (Held(w, m))' PROVE Held(w, m)
      <4>1. m # 0
        BY Numbered DEF ChatInv
      <4> QED BY <1>2, <1>4, <3>3, <4>1 DEF Held
    <3>4. \A p, q \in OnTheWay' : w \in Words(p) /\ w \in Words(q) => p = q
      BY <3>1, <3>2 DEF Once
    <3>5. \A m, n \in H!Originals' : (Held(w, m))' /\ (Held(w, n))' => m = n
      BY <1>1, <3>1, <3>3 DEF Once
    <3>6. w \notin Words(box')
      BY <1>2
    <3>7. ASSUME NEW m \in H!Originals', (Held(w, m))' PROVE \A q \in OnTheWay' : w \notin Words(q)
      BY <1>1, <3>1, <3>2, <3>3, <3>7 DEF Once
    <3> QED BY <3>4, <3>5, <3>6, <3>7 DEF Once
  <2> QED BY <2>1 DEF OnceInv
<1> QED BY <1>5, <1>6, <1>7, <1>8, <1>9 DEF ChatInv

LEMMA RemountKeeps ==
  ASSUME H!ChatAssumption, ChatInv, H!Remount,
         list' \in {"loading", "failed", "loaded"}, active' \in H!Threads \union {NoThread},
         UNCHANGED <<messages, typed, sent, lost>>
  PROVE  ChatInv'
<1>1. CASE H!Selected' = H!Selected
  BY <1>1, StayKeeps DEF H!Remount
<1>2. CASE H!Selected' # H!Selected
  BY <1>2, LeaveKeeps DEF H!Remount
<1> QED BY <1>1, <1>2

LEMMA TurnKeeps ==
  ASSUME H!ChatAssumption, ChatInv,
         \/ H!ListAnswered
         \/ \E t \in H!Threads : H!Choose(t) \/ H!PickColleague(t)
         \/ \E t \in CaseThreads \union {NoThread} : H!FollowLink(t) \/ H!ComeBack(t)
  PROVE  ChatInv'
<1>1. ChatTypes
  BY DEF ChatInv
<1>2. CASE H!ListAnswered
  BY <1>1, <1>2, RemountKeeps DEF H!ListAnswered, H!server, ChatTypes
<1>3. CASE \E t \in H!Threads : H!Choose(t) \/ H!PickColleague(t)
  BY <1>1, <1>3, RemountKeeps DEF H!Choose, H!PickColleague, H!Show, H!server, ChatTypes
<1>4. CASE \E t \in CaseThreads \union {NoThread} : H!FollowLink(t) \/ H!ComeBack(t)
  <2>1. PICK t \in CaseThreads \union {NoThread} : H!FollowLink(t) \/ H!ComeBack(t)
    BY <1>4
  <2>2. t \in H!Threads \union {NoThread}
    BY DEF H!Threads
  <2>3. CASE H!FollowLink(t)
    BY <1>1, <2>2, <2>3, RemountKeeps DEF H!FollowLink, H!server, ChatTypes
  <2>4. CASE H!ComeBack(t)
    BY <1>1, <2>2, <2>4, LeaveKeeps DEF H!ComeBack, H!server, ChatTypes
  <2> QED BY <2>1, <2>3, <2>4
<1> QED BY <1>2, <1>3, <1>4

-----------------------------------------------------------------------------
(***************************************************************************)
(* The server and its answers.                                             *)
(***************************************************************************)
LEMMA Stored ==
  ASSUME ChatInv, typed' = typed, NEW msg \in MessageTypes, messages' = Append(messages, msg),
         NEW new, new = Len(messages) + 1
  PROVE  /\ messages' \in Seq(MessageTypes) /\ Kept
         /\ new \notin DOMAIN messages /\ new # 0
         /\ DOMAIN messages' = DOMAIN messages \union {new} /\ messages'[new] = msg
         /\ \A m \in DOMAIN messages : messages'[m] = messages[m]
<1>1. messages \in Seq(MessageTypes)
  BY DEF ChatInv, ChatTypes
<1>2. /\ messages' \in Seq(MessageTypes)
      /\ new \notin DOMAIN messages /\ new # 0
      /\ DOMAIN messages' = DOMAIN messages \union {new} /\ messages'[new] = msg
      /\ \A m \in DOMAIN messages : messages'[m] = messages[m]
  BY <1>1
<1> QED BY <1>2 DEF Kept, H!Originals

\* A new message is in the conversation it was sent in.
LEMMA SendStored ==
  ASSUME ChatInv, typed' = typed, NEW q \in sending, q.op = "send", H!Accepted(q)
  PROVE  /\ messages' \in Seq(MessageTypes) /\ Kept /\ MessagesInv'
         /\ \A m \in H!Originals : messages'[m] = messages[m]
         /\ \E new : /\ new \notin DOMAIN messages /\ new # 0
                     /\ H!Originals' = H!Originals \union {new}
                     /\ Words(messages'[new]) = Words(q)
<1> DEFINE msg == H!Message(q.thread, q.text, q.files, q.to, FALSE)
<1>1. q \in CallTypes /\ Addressed(q)
  BY DEF ChatInv, ChatTypes, CallsInv
<1>2. messages' = Append(messages, msg)
  BY DEF H!Accepted
<1>3. msg \in MessageTypes /\ Words(msg) = Words(q) /\ ~msg.copy /\ msg.thread = q.thread
  BY <1>1 DEF MessageTypes, CallTypes, H!Message, Words
<1> HIDE DEF msg
<1>4. PICK new : new = Len(messages) + 1
  OBVIOUS
<1>5. /\ messages' \in Seq(MessageTypes) /\ Kept
      /\ new \notin DOMAIN messages /\ new # 0
      /\ DOMAIN messages' = DOMAIN messages \union {new} /\ messages'[new] = msg
      /\ \A m \in DOMAIN messages : messages'[m] = messages[m]
  BY <1>2, <1>3, <1>4, Stored
<1>6. H!Originals' = H!Originals \union {new} /\ \A m \in H!Originals : messages'[m] = messages[m]
  BY <1>3, <1>5 DEF H!Originals
<1>7. MessagesInv'
  <2>1. \A m \in DOMAIN messages' : messages'[m].copy => messages'[m].thread = OwnThread
    BY <1>3, <1>5 DEF ChatInv, MessagesInv
  <2>2. ASSUME NEW m \in H!Originals', NEW w \in Words(messages'[m])
        PROVE  w \in DOMAIN typed /\ typed[w].in = messages'[m].thread /\ typed[w].of \in {0, m}
    <3>1. CASE m = new
      BY <1>1, <1>3, <1>5, <2>2, <3>1 DEF Addressed, TypedIn
    <3>2. CASE m \in H!Originals
      BY <1>6, <2>2, <3>2 DEF ChatInv, MessagesInv, TypedIn
    <3> QED BY <1>6, <3>1, <3>2
  <2> QED BY <2>1, <2>2 DEF MessagesInv, TypedIn
<1> QED BY <1>3, <1>5, <1>6, <1>7

\* A copy is a message to oneself, and nobody's words count in it.
LEMMA CopyStored ==
  ASSUME H!ChatAssumption, ChatInv, typed' = typed, NEW q \in sending, q.op = "save",
         H!Accepted(q)
  PROVE  /\ messages' \in Seq(MessageTypes) /\ Kept /\ MessagesInv'
         /\ H!Originals' = H!Originals /\ \A m \in H!Originals : messages'[m] = messages[m]
<1> DEFINE msg == H!Message(OwnThread, q.text, {}, "all", TRUE)
<1>1. q \in CallTypes
  BY DEF ChatInv, ChatTypes
<1>2. messages' = Append(messages, msg)
  BY DEF H!Accepted
<1>3. msg \in MessageTypes /\ msg.copy /\ msg.thread = OwnThread
  BY <1>1 DEF MessageTypes, CallTypes, H!Message, H!ChatAssumption, H!Threads
<1> HIDE DEF msg
<1>4. PICK new : new = Len(messages) + 1
  OBVIOUS
<1>5. /\ messages' \in Seq(MessageTypes) /\ Kept
      /\ new \notin DOMAIN messages /\ new # 0
      /\ DOMAIN messages' = DOMAIN messages \union {new} /\ messages'[new] = msg
      /\ \A m \in DOMAIN messages : messages'[m] = messages[m]
  BY <1>2, <1>3, <1>4, Stored
<1>6. H!Originals' = H!Originals /\ \A m \in H!Originals : messages'[m] = messages[m]
  BY <1>3, <1>5 DEF H!Originals
<1>7. MessagesInv'
  BY <1>3, <1>5, <1>6 DEF ChatInv, MessagesInv, TypedIn
<1> QED BY <1>5, <1>6, <1>7

\* A message that is changed gets what was typed over it.
LEMMA ChangeStored ==
  ASSUME ChatInv, typed' = typed, NEW q \in sending, q.op \in {"edit", "delete"},
         H!Accepted(q)
  PROVE  /\ messages' \in Seq(MessageTypes) /\ Kept /\ MessagesInv'
         /\ H!Originals' = H!Originals
         /\ \A m \in H!Originals : \A w \in Words(messages'[m]) :
              w \in Words(messages[m]) \/ (q.op = "edit" /\ q.id = m /\ q.text = w)
<1>1. /\ q \in CallTypes /\ Addressed(q) /\ q.id \in DOMAIN messages
      /\ messages \in Seq(MessageTypes) /\ messages[q.id] \in MessageTypes
  <2>1. q \in CallTypes /\ Addressed(q) /\ messages \in Seq(MessageTypes)
    BY DEF ChatInv, ChatTypes, CallsInv
  <2>2. q.op = "edit" => H!Changeable(q)
    BY DEF H!Accepted
  <2>3. q.op = "delete" => H!Changeable(q)
    BY DEF H!Accepted
  <2>4. q.id \in DOMAIN messages
    BY <2>2, <2>3 DEF H!Changeable, H!Alive
  <2> QED BY <2>1, <2>4
<1>2. PICK new \in MessageTypes :
        /\ messages' = [messages EXCEPT ![q.id] = new]
        /\ new.thread = messages[q.id].thread /\ new.copy = messages[q.id].copy
        /\ new.files = messages[q.id].files
        /\ new.text = messages[q.id].text \/ (q.op = "edit" /\ new.text = q.text)
  <2>1. CASE q.op = "edit"
    <3> DEFINE new == [messages[q.id] EXCEPT !.text = q.text]
    <3>1. messages' = [messages EXCEPT ![q.id] = new]
      BY <1>1, <2>1 DEF H!Accepted
    <3>2. new \in MessageTypes
      BY <1>1 DEF MessageTypes, CallTypes
    <3>3. /\ new.thread = messages[q.id].thread /\ new.copy = messages[q.id].copy
          /\ new.files = messages[q.id].files /\ new.text = q.text
      BY <1>1 DEF MessageTypes
    <3> QED BY <2>1, <3>1, <3>2, <3>3
  <2>2. CASE q.op = "delete"
    <3> DEFINE new == [messages[q.id] EXCEPT !.alive = FALSE]
    <3>1. messages' = [messages EXCEPT ![q.id] = new]
      BY <1>1, <2>2 DEF H!Accepted
    <3>2. new \in MessageTypes
      BY <1>1 DEF MessageTypes
    <3>3. /\ new.thread = messages[q.id].thread /\ new.copy = messages[q.id].copy
          /\ new.files = messages[q.id].files /\ new.text = messages[q.id].text
      BY <1>1 DEF MessageTypes
    <3> QED BY <3>1, <3>2, <3>3
  <2> QED BY <2>1, <2>2
<1>3. /\ messages' \in Seq(MessageTypes) /\ DOMAIN messages' = DOMAIN messages
      /\ messages'[q.id] = new
      /\ \A m \in DOMAIN messages : m # q.id => messages'[m] = messages[m]
  BY <1>1, <1>2
<1>4. H!Originals' = H!Originals
  BY <1>2, <1>3 DEF H!Originals
<1>5. Kept
  BY <1>2, <1>3, <1>4 DEF Kept
<1>6. \A m \in H!Originals : \A w \in Words(messages'[m]) :
        w \in Words(messages[m]) \/ (q.op = "edit" /\ q.id = m /\ q.text = w)
  BY <1>2, <1>3 DEF H!Originals, Words
<1>7. MessagesInv'
  <2>1. \A m \in DOMAIN messages' : messages'[m].copy => messages'[m].thread = OwnThread
    BY <1>2, <1>3 DEF ChatInv, MessagesInv
  <2>2. ASSUME NEW m \in H!Originals, NEW w \in Words(messages'[m])
        PROVE  TypedIn(w, messages[m].thread, m)
    BY <1>1, <1>6, <2>2 DEF ChatInv, MessagesInv, Addressed, OfThread
  <2>3. \A m \in H!Originals : messages'[m].thread = messages[m].thread
    BY <1>5 DEF Kept, H!Originals
  <2> QED BY <1>4, <2>1, <2>2, <2>3 DEF MessagesInv, TypedIn
<1> QED BY <1>3, <1>4, <1>5, <1>6, <1>7

\* The composer after an answer.
LEMMA BoxAnswered ==
  ASSUME ChatInv, NEW q \in sending, H!AfterSuccess(q) \/ H!AfterError(q)
  PROVE  /\ box' \in BoxTypes /\ Words(box') \subseteq Words(box)
         /\ box'.editing \in {0, box.editing} /\ box'.edit \in {0, box.edit}
         /\ H!AfterSuccess(q) /\ q.op = "send" /\ q.mine /\ q.thread \in CaseThreads =>
              Words(box') = {}
<1>1. box \in BoxTypes /\ q.op \in {"send", "save", "edit", "delete"}
  BY DEF ChatInv, ChatTypes, CallTypes
<1>2. CASE /\ box' = box
           /\ \/ ~H!AfterSuccess(q)
              \/ ~q.mine \/ q.op # "send" \/ q.thread \notin CaseThreads
  BY <1>1, <1>2
<1>3. CASE q.op = "delete" /\ box' = [box EXCEPT !.deleting = 0]
  BY <1>1, <1>3 DEF BoxTypes, Words
<1>4. CASE q.op = "edit" /\ box' = [box EXCEPT !.editing = 0, !.edit = 0]
  <2>1. box' = [[box EXCEPT !.editing = 0] EXCEPT !.edit = 0]
    BY <1>1, <1>4 DEF BoxTypes
  <2>2. box' \in BoxTypes /\ Words(box') = Words(box) /\ box'.editing = 0 /\ box'.edit = 0
    BY <1>1, <2>1 DEF BoxTypes, Words
  <2> QED BY <1>4, <2>2
<1>5. CASE box' = [box EXCEPT !.text = 0, !.files = {}]
  <2>1. box' = [[box EXCEPT !.text = 0] EXCEPT !.files = {}]
    BY <1>1, <1>5 DEF BoxTypes
  <2> QED BY <1>1, <2>1 DEF BoxTypes, Words
<1>6. CASE H!AfterError(q) /\ ~H!AfterSuccess(q)
  BY <1>2, <1>3, <1>6 DEF H!AfterError
<1>7. CASE H!AfterSuccess(q)
  <2>1. CASE ~q.mine \/ q.op = "save"
    <3>1. box' = box
      BY <1>7, <2>1 DEF H!AfterSuccess
    <3>2. ~q.mine \/ q.op # "send"
      BY <2>1
    <3> QED BY <1>2, <3>1, <3>2
  <2>2. CASE q.mine /\ q.op = "send"
    <3>1. CASE q.thread \in CaseThreads
      BY <1>5, <1>7, <2>2, <3>1 DEF H!AfterSuccess
    <3>2. CASE q.thread \notin CaseThreads
      BY <1>2, <1>7, <2>2, <3>2 DEF H!AfterSuccess
    <3> QED BY <3>1, <3>2
  <2>3. CASE q.mine /\ q.op = "edit"
    BY <1>4, <1>7, <2>3 DEF H!AfterSuccess
  <2>4. CASE q.mine /\ q.op = "delete"
    BY <1>3, <1>7, <2>4 DEF H!AfterSuccess
  <2> QED BY <1>1, <2>1, <2>2, <2>3, <2>4
<1> QED BY <1>6, <1>7

\* A request that is answered holds its words no more; a message that is sent gets them.
LEMMA SendServed ==
  ASSUME ChatInv, OnceInv, NEW q \in sending, q.op = "send", sending' = sending \ {q},
         UNCHANGED <<H!place, typed>>, H!Accepted(q), H!AfterSuccess(q)
  PROVE  OnceInv'
<1>1. Addressed(q) /\ H!Selected' = H!Selected /\ q \in OnTheWay
  BY SamePlace DEF ChatInv, CallsInv, OnTheWay
<1>2. PICK new : /\ new \notin DOMAIN messages /\ new # 0
                 /\ H!Originals' = H!Originals \union {new}
                 /\ Words(messages'[new]) = Words(q)
  BY SendStored
<1>3. \A m \in H!Originals : messages'[m] = messages[m]
  BY SendStored
<1>4. /\ Words(box') \subseteq Words(box)
      /\ box'.editing \in {0, box.editing} /\ box'.edit \in {0, box.edit}
      /\ q.mine /\ q.thread \in CaseThreads => Words(box') = {}
  BY BoxAnswered
<1>5. OnTheWay' = OnTheWay \ {q}
  BY DEF OnTheWay
<1>6. box'.editing # new /\ \A p \in sending : p.op = "edit" => p.id # new
  <2>1. box.editing # new
    BY <1>2 DEF ChatInv, BoxInv, OfThread, H!Originals
  <2>2. \A p \in sending : p.op = "edit" => p.id # new
    BY <1>2 DEF ChatInv, CallsInv, Addressed, OfThread, H!Originals
  <2> QED BY <1>2, <1>4, <2>1, <2>2
<1>7. ASSUME NEW w \in DOMAIN typed PROVE (Once(w))'
  <2>1. Once(w)
    BY DEF OnceInv
  <2>2. ASSUME NEW m \in H!Originals, (Held(w, m))' PROVE Held(w, m)
    <3>1. w # 0 /\ m # 0
      BY Numbered DEF ChatInv
    <3> QED BY <1>3, <1>4, <2>2, <3>1 DEF Held
  <2>3. (Held(w, new))' => w \in Words(q)
    BY <1>2, <1>6 DEF Held
  <2>4. w \in Words(q) => /\ \A m \in H!Originals : ~Held(w, m)
                          /\ \A p \in OnTheWay' : w \notin Words(p)
                          /\ w \notin Words(box')
    <3>1. ASSUME w \in Words(q) PROVE \A m \in H!Originals : ~Held(w, m)
      BY <1>1, <2>1, <3>1 DEF Once
    <3>2. ASSUME w \in Words(q) PROVE \A p \in OnTheWay' : w \notin Words(p)
      BY <1>1, <1>5, <2>1, <3>2 DEF Once
    <3>3. ASSUME w \in Words(q), w \in Words(box') PROVE FALSE
      <4>1. q.mine /\ H!Selected \in CaseThreads
        BY <1>1, <1>4, <2>1, <3>3 DEF Once
      <4> QED BY <1>1, <1>4, <3>3, <4>1 DEF Addressed
    <3> QED BY <3>1, <3>2, <3>3
  <2>5. \A p, r \in OnTheWay' : w \in Words(p) /\ w \in Words(r) => p = r
    BY <1>5, <2>1 DEF Once
  <2>6. \A m, n \in H!Originals' : (Held(w, m))' /\ (Held(w, n))' => m = n
    BY <1>2, <2>1, <2>2, <2>3, <2>4 DEF Once
  <2>7. \A p \in OnTheWay' : w \in Words(p) /\ w \in Words(box') =>
          p.mine /\ H!Selected' \in CaseThreads
    BY <1>1, <1>4, <1>5, <2>1 DEF Once
  <2>8. ASSUME NEW m \in H!Originals', (Held(w, m))'
        PROVE  w \notin Words(box') /\ \A p \in OnTheWay' : w \notin Words(p)
    <3>1. CASE m = new
      BY <2>3, <2>4, <2>8, <3>1
    <3>2. CASE m \in H!Originals
      BY <1>4, <1>5, <2>1, <2>2, <2>8, <3>2 DEF Once
    <3> QED BY <1>2, <3>1, <3>2
  <2> QED BY <2>5, <2>6, <2>7, <2>8 DEF Once
<1> QED BY <1>7 DEF OnceInv

LEMMA OtherServed ==
  ASSUME ChatInv, OnceInv, NEW q \in sending, sending' = sending \ {q},
         UNCHANGED <<H!place, typed>>, H!AfterSuccess(q) \/ H!AfterError(q),
         H!Originals' = H!Originals,
         \A m \in H!Originals : \A w \in Words(messages'[m]) :
           w \in Words(messages[m]) \/ (q.op = "edit" /\ q.id = m /\ q.text = w)
  PROVE  OnceInv'
<1>1. H!Selected' = H!Selected /\ OnTheWay' \subseteq OnTheWay
  BY SamePlace DEF OnTheWay
<1>2. /\ Words(box') \subseteq Words(box)
      /\ box'.editing \in {0, box.editing} /\ box'.edit \in {0, box.edit}
  BY BoxAnswered
<1>3. ASSUME NEW w \in DOMAIN typed PROVE (Once(w))'
  <2>1. Once(w)
    BY DEF OnceInv
  <2>2. ASSUME NEW m \in H!Originals, (Held(w, m))' PROVE Held(w, m)
    <3>1. w # 0 /\ m # 0
      BY Numbered DEF ChatInv
    <3>2. CASE w \in Words(messages'[m])
      BY <3>2 DEF Held
    <3>3. CASE w = box'.edit /\ box'.editing = m
      BY <1>2, <3>1, <3>3 DEF Held
    <3>4. CASE \E p \in sending' : p.op = "edit" /\ p.id = m /\ p.text = w
      BY <3>4 DEF Held
    <3> QED BY <2>2, <3>2, <3>3, <3>4 DEF Held
  <2> QED BY <1>1, <1>2, <2>1, <2>2, Fewer
<1> QED BY <1>3 DEF OnceInv

LEMMA ServeKeepsWords ==
  ASSUME H!ChatAssumption, ChatInv, NEW q \in sending, H!Serve(q)
  PROVE  ChatInv'
<1>1. /\ sending' = sending \ {q} /\ UNCHANGED <<H!place, feed, typed, sent>>
      /\ H!AfterSuccess(q) \/ H!AfterError(q)
      /\ H!Accepted(q) \/ messages' = messages
      /\ \/ H!Accepted(q) /\ H!AfterSuccess(q) /\ lost' = lost
         \/ lost'
         \/ messages' = messages /\ lost' = lost
  BY DEF H!Serve
<1>2. q.op \in {"send", "save", "edit", "delete"}
  BY DEF ChatInv, ChatTypes, CallTypes
<1>3. messages' \in Seq(MessageTypes) /\ Kept /\ MessagesInv'
  <2>1. CASE messages' = messages
    BY <1>1, <2>1, KeptSame, MessagesKept DEF ChatInv, ChatTypes
  <2>2. CASE H!Accepted(q)
    BY <1>1, <1>2, <2>2, SendStored, CopyStored, ChangeStored
  <2> QED BY <1>1, <2>1, <2>2
<1>4. /\ box' \in BoxTypes /\ Words(box') \subseteq Words(box)
      /\ box'.editing \in {0, box.editing} /\ box'.edit \in {0, box.edit}
  BY <1>1, BoxAnswered
<1>5. H!Selected' = H!Selected
  BY <1>1, SamePlace
<1>6. ChatTypes'
  BY <1>1, <1>3, <1>4 DEF ChatInv, ChatTypes, H!place
<1>7. BoxInv' /\ FeedInv' /\ CallsInv'
  <2>1. sending' \ sending = {}
    BY <1>1
  <2> QED BY <1>1, <1>3, <1>4, <1>5, <2>1, BoxKept, FeedKept, CallsKept DEF ChatInv
<1>8. lost' \/ OnceInv'
  <2>1. CASE lost
    BY <1>1, <2>1
  <2>2. CASE OnceInv /\ H!Accepted(q) /\ H!AfterSuccess(q)
    <3>1. CASE q.op = "send"
      BY <1>1, <2>2, <3>1, SendServed
    <3>2. CASE q.op = "save"
      <4>1. H!Originals' = H!Originals /\ \A m \in H!Originals : messages'[m] = messages[m]
        BY <1>1, <2>2, <3>2, CopyStored
      <4> QED BY <1>1, <2>2, <4>1, OtherServed
    <3>3. CASE q.op \in {"edit", "delete"}
      <4>1. /\ H!Originals' = H!Originals
            /\ \A m \in H!Originals : \A w \in Words(messages'[m]) :
                 w \in Words(messages[m]) \/ (q.op = "edit" /\ q.id = m /\ q.text = w)
        BY <1>1, <2>2, <3>3, ChangeStored
      <4> QED BY <1>1, <2>2, <4>1, OtherServed
    <3> QED BY <1>2, <3>1, <3>2, <3>3
  <2>3. CASE OnceInv /\ messages' = messages
    <3>1. H!Originals' = H!Originals
      BY <2>3 DEF H!Originals
    <3> QED BY <1>1, <2>3, <3>1, OtherServed
  <2> QED BY <1>1, <2>1, <2>2, <2>3 DEF ChatInv
<1> QED BY <1>3, <1>6, <1>7, <1>8 DEF ChatInv

-----------------------------------------------------------------------------
LEMMA InitChats ==
  ASSUME H!ChatAssumption, H!Init
  PROVE  ChatInv
<1>1. /\ list = "loading" /\ active \in CaseThreads \union {NoThread} /\ box = H!Empty
      /\ feed = H!NoFeed /\ messages = <<>> /\ sending = {} /\ typed = <<>> /\ sent = 0
  BY DEF H!Init
<1>2. box \in BoxTypes /\ Words(box) = {} /\ box.editing = 0
  BY <1>1 DEF H!Empty, BoxTypes, Words, H!ChatAssumption
<1>3. ChatTypes
  BY <1>1, <1>2 DEF ChatTypes, H!Threads
<1>4. BoxInv /\ FeedInv /\ CallsInv /\ MessagesInv
  BY <1>1, <1>2 DEF BoxInv, FeedInv, H!NoFeed, CallsInv, MessagesInv, H!Originals
<1>5. OnceInv
  BY <1>1 DEF OnceInv
<1> QED BY <1>3, <1>4, <1>5 DEF ChatInv

LEMMA NextChats ==
  ASSUME H!ChatAssumption, ChatInv, [H!Next]_hVars
  PROVE  ChatInv'
<1>1. CASE H!ListAnswered
  BY <1>1, TurnKeeps
<1>2. CASE H!Poll
  BY <1>2, ReadKeeps
<1>3. CASE H!TypeText \/ H!PickFile
  BY <1>3, ComposeKeeps
<1>4. CASE H!DropFile \/ H!CancelEdit \/ H!CloseDialog
  BY <1>4, DropFileKeeps, CancelEditKeeps, DialogKeeps
<1>5. CASE H!SendInCase \/ H!SendSimple
  BY <1>5, SendInCaseKeeps, SendSimpleKeeps
<1>6. CASE H!TypeEdit \/ H!SaveEdit \/ H!ConfirmDelete
  BY <1>6, TypeEditKeeps, SaveEditKeeps, ConfirmDeleteKeeps
<1>7. CASE \/ \E t \in H!Threads : H!Choose(t) \/ H!PickColleague(t)
           \/ \E t \in CaseThreads \union {NoThread} : H!FollowLink(t) \/ H!ComeBack(t)
  BY <1>7, TurnKeeps
<1>8. CASE \E to \in Addressees : H!Address(to)
  BY <1>8, AddressKeeps
<1>9. ASSUME NEW m \in DOMAIN messages,
             H!StartEdit(m) \/ H!AskDelete(m) \/ H!SaveMessage(m) \/ H!ReadElsewhere(m)
      PROVE  ChatInv'
  BY <1>9, StartEditKeeps, DialogKeeps, SaveMessageKeeps, ReadKeeps
<1>10. CASE \E q \in sending : H!Serve(q)
  BY <1>10, ServeKeepsWords
<1>11. CASE UNCHANGED hVars
  <2>1. UNCHANGED <<list, active, box, feed, messages, sending, typed, sent, lost>>
    BY <1>11 DEF hVars
  <2>2. H!Selected' = H!Selected
    BY <2>1 DEF H!Selected
  <2> QED BY <2>1, <2>2, StayKeeps DEF ChatInv, ChatTypes
<1> QED BY <1>1, <1>2, <1>3, <1>4, <1>5, <1>6, <1>7, <1>8, <1>9, <1>10, <1>11 DEF H!Next

ChatsInv == part = "chats" => ChatInv

\* The inductive invariant: the composer, the editor and the requests of the open thread
\* hold what was typed in it, an answer acts on the thread it was asked from, and until an
\* answer is lost a word has one way into one message (ChatsPage.tsx, CaseChat.tsx).
THEOREM ChatInductive ==
  ASSUME H!ChatAssumption
  PROVE  OfficeSpec => []ChatsInv
<1>1. OfficeInit => ChatsInv
  BY InitChats DEF OfficeInit, ChatsInv
<1>2. ChatsInv /\ [OfficeNext]_officeVars => ChatsInv'
  <2> SUFFICES ASSUME ChatsInv, [OfficeNext]_officeVars, part' = "chats" PROVE ChatInv'
    BY DEF ChatsInv
  <2>1. part = "chats" /\ ([H!Next]_hVars)
    BY DEF OfficeNext, officeVars
  <2> QED BY <2>1, NextChats DEF ChatsInv
<1> QED BY <1>1, <1>2, PTL DEF OfficeSpec

\* For any conversations and any number of words and requests: what is typed in a
\* conversation, or over one of its messages, is stored there and nowhere else, and once,
\* unless an answer was lost (the keys of the threads, canSend, onSuccess).
THEOREM WordsStay ==
  ASSUME H!ChatAssumption
  PROVE  OfficeSpec => []WordsStayInPlace
<1>1. ChatsInv => WordsStayInPlace
  <2> SUFFICES ASSUME ChatInv PROVE H!WordsStayInPlace
    BY DEF ChatsInv, WordsStayInPlace
  <2>1. \A m : H!WordsOf(m) = Words(messages[m])
    BY DEF H!WordsOf, Words
  <2>2. ASSUME NEW m \in H!Originals, NEW w \in H!WordsOf(m)
        PROVE  TypedIn(w, messages[m].thread, m)
    BY <2>1, <2>2 DEF ChatInv, MessagesInv
  <2>3. ASSUME OnceInv, NEW m \in H!Originals, NEW n \in H!Originals, m # n,
               NEW w \in H!WordsOf(m), w \in H!WordsOf(n)
        PROVE  FALSE
    <3>1. w \in DOMAIN typed
      BY <2>2 DEF TypedIn
    <3>2. Held(w, m) /\ Held(w, n)
      BY <2>1, <2>3 DEF Held
    <3> QED BY <2>3, <3>1, <3>2 DEF OnceInv, Once
  <2> QED BY <2>2, <2>3 DEF H!WordsStayInPlace, TypedIn, ChatInv
<1> QED BY <1>1, ChatInductive, PTL

-----------------------------------------------------------------------------
(***************************************************************************)
(* The pages of the administrator.  StaffInv is inductive: a form, a save  *)
(* and a dialog are about one account, which exists, or about a login that *)
(* is new; and what is sent gives a branch to operators and nobody else.   *)
(***************************************************************************)
AccountRow == P!A!Account

EntryTypes == [role : P!A!Roles, branch : StaffBranches \union {NoBranch},
               moderates : SUBSET StaffBranches]

Modes == {"create", "edit", "branch"}

Subjects == Users \union {New} \union StaffBranches

FormTypes == [mode : Modes, for : Subjects, id : Subjects \union {Null},
              picture : Subjects \union {Null}, entry : EntryTypes \union SUBSET Users]

SaveTypes == [step : {"row", "picture", "done"}, mode : Modes, for : Subjects,
              id : Subjects \union {Null}, picture : Subjects \union {Null},
              entry : EntryTypes \union SUBSET Users]

StaffTypes ==
  /\ staff \in [Users -> AccountRow \union {NoAccount}]
  /\ known \in [Users -> AccountRow \union {NoAccount}]
  /\ hands \in [Users -> SUBSET (Users \union {New})]
  /\ modal # Null => modal \in FormTypes
  /\ saving # Null => saving \in SaveTypes
  /\ dialog # Null => dialog \in [id : Users, active : BOOLEAN]
  /\ toggling # Null => toggling \in [id : Users, active : BOOLEAN, served : BOOLEAN]

\* An account of the page exists, and so does every login that was there at first.
StaffStay ==
  /\ P!Existing(known) \subseteq P!Existing(staff)
  /\ Users \ Newcomers \subseteq P!Existing(staff)
  /\ dialog # Null => dialog.id \in P!Existing(staff)
  /\ toggling # Null => toggling.id \in P!Existing(staff)

Branched(e) == e.role = "OPERATOR" <=> e.branch # NoBranch

\* A form, or its save, is about the account it was opened for.
Of(f) ==
  /\ f.mode = "create" => f.for = New /\ f.id \in Users \union {Null} /\ f.entry \in EntryTypes
  /\ f.mode = "edit" => f.for = f.id /\ f.id \in P!Existing(staff) /\ f.entry \in EntryTypes
  /\ f.mode = "branch" => f.id \in StaffBranches /\ f.entry \in SUBSET Users /\ f.picture = Null
  /\ f.picture \in {Null, f.for}

FormOf == modal # Null => Of(modal)

SaveOf ==
  saving # Null =>
    /\ Of(saving) /\ saving.id # Null
    /\ saving.mode # "branch" => Branched(saving.entry)
    /\ saving.step = "picture" => saving.picture # Null
    /\ saving.mode = "create" /\ saving.step = "picture" => saving.id \in Newcomers

StaffInv ==
  /\ StaffTypes /\ StaffStay /\ FormOf /\ SaveOf
  /\ P!FormsStayApart /\ P!OperatorsHaveBranch

-----------------------------------------------------------------------------
(***************************************************************************)
(* Rows.                                                                   *)
(***************************************************************************)
LEMMA EditedRow ==
  ASSUME P!StaffAssumption, NEW r \in AccountRow, NEW e \in EntryTypes, Branched(e)
  PROVE  P!A!Edited(r, e) \in AccountRow /\ Branched(P!A!Edited(r, e))
<1> DEFINE new == P!A!Edited(r, e)
<1>1. /\ r \in P!A!Account /\ e.role \in P!A!Roles /\ e.branch \in StaffBranches \union {NoBranch}
      /\ e.moderates \in SUBSET StaffBranches
  BY DEF AccountRow, EntryTypes
<1>2. CASE e.role = "MODERATOR"
  <2>1. new = [[[r EXCEPT !.role = e.role] EXCEPT !.branch = NoBranch] EXCEPT !.moderates = e.moderates]
    BY <1>1, <1>2 DEF P!A!Edited, P!A!Account
  <2> HIDE DEF new
  <2>2. new \in P!A!Account /\ new.role = e.role /\ new.branch = NoBranch
    BY <1>1, <2>1 DEF P!A!Account
  <2> QED BY <1>2, <2>2 DEF AccountRow, Branched, new
<1>3. CASE e.role # "MODERATOR"
  <2>1. new = [[[r EXCEPT !.role = e.role] EXCEPT !.branch = e.branch] EXCEPT !.moderates = {}]
    BY <1>1, <1>3 DEF P!A!Edited, P!A!Account
  <2> HIDE DEF new
  <2>2. new \in P!A!Account /\ new.role = e.role /\ new.branch = e.branch
    BY <1>1, <2>1 DEF P!A!Account
  <2> QED BY <2>2 DEF AccountRow, Branched, new
<1> QED BY <1>2, <1>3

\* A row is written to one account, and every account keeps existing.
LEMMA RowWritten ==
  ASSUME P!StaffAssumption, StaffInv, NEW u \in Users, NEW new \in AccountRow, Branched(new),
         staff' = [staff EXCEPT ![u] = new]
  PROVE  /\ staff' \in [Users -> AccountRow \union {NoAccount}]
         /\ P!Existing(staff) \subseteq P!Existing(staff')
         /\ P!OperatorsHaveBranch'
<1>1. staff \in [Users -> AccountRow \union {NoAccount}] /\ new # NoAccount
  BY DEF StaffInv, StaffTypes, P!StaffAssumption, AccountRow
<1>2. /\ staff' \in [Users -> AccountRow \union {NoAccount}]
      /\ staff'[u] = new /\ \A v \in Users : v # u => staff'[v] = staff[v]
  BY <1>1
<1>3. P!Existing(staff) \subseteq P!Existing(staff')
  BY <1>1, <1>2 DEF P!Existing
<1>4. \A v \in P!Existing(staff') : v # u => v \in P!Existing(staff)
  BY <1>2 DEF P!Existing
<1>5. P!OperatorsHaveBranch'
  BY <1>2, <1>4 DEF StaffInv, P!OperatorsHaveBranch, Branched
<1> QED BY <1>2, <1>3, <1>5

\* While accounts keep existing, what the pages hold stays in order.
LEMMA StaffStays ==
  ASSUME StaffInv, P!Existing(staff) \subseteq P!Existing(staff'),
         P!Existing(known') \subseteq P!Existing(staff'),
         dialog' \in {dialog, Null}, toggling' = Null \/ (toggling # Null /\ toggling'.id = toggling.id)
  PROVE  StaffStay'
BY DEF StaffInv, StaffStay, P!Existing

LEMMA OfStays ==
  ASSUME P!Existing(staff) \subseteq P!Existing(staff'), NEW f, Of(f)
  PROVE  (Of(f))'
BY DEF Of

LEMMA FormsStay ==
  ASSUME StaffInv, P!Existing(staff) \subseteq P!Existing(staff'), modal' \in {modal, Null}
  PROVE  FormOf'
BY OfStays DEF StaffInv, FormOf, Of

LEMMA SavesStay ==
  ASSUME StaffInv, P!Existing(staff) \subseteq P!Existing(staff'), saving' \in {saving, Null}
  PROVE  SaveOf'
BY OfStays DEF StaffInv, SaveOf, Of


\* A step that writes no row.
LEMMA RowsSame ==
  ASSUME StaffInv, staff' = staff, hands' = hands
  PROVE  /\ P!Existing(staff) \subseteq P!Existing(staff')
         /\ P!FormsStayApart' /\ P!OperatorsHaveBranch'
BY DEF StaffInv, P!FormsStayApart, P!OperatorsHaveBranch

-----------------------------------------------------------------------------
(***************************************************************************)
(* Forms.                                                                  *)
(***************************************************************************)
LEMMA OpenKeeps ==
  ASSUME StaffInv, NEW form, P!OpenForm(form), form \in FormTypes, Of(form)
  PROVE  StaffInv'
<1>1. UNCHANGED <<staff, hands, known, saving, dialog, toggling>> /\ modal' = form
  BY DEF P!OpenForm, P!Server, P!Cached, P!Toggle
<1>2. /\ P!Existing(staff) \subseteq P!Existing(staff') /\ P!Existing(known') \subseteq P!Existing(staff')
      /\ P!FormsStayApart' /\ P!OperatorsHaveBranch'
  BY <1>1, RowsSame DEF StaffInv, StaffStay
<1>3. StaffTypes'
  BY <1>1 DEF StaffInv, StaffTypes
<1>4. StaffStay'
  BY <1>1 DEF StaffInv, StaffStay
<1>5. FormOf'
  BY <1>1, <1>2, OfStays DEF FormOf, Of
<1>6. SaveOf'
  BY <1>1, <1>2, SavesStay
<1> QED BY <1>2, <1>3, <1>4, <1>5, <1>6 DEF StaffInv

LEMMA OpenFormsKeep ==
  ASSUME P!StaffAssumption, StaffInv,
         P!OpenCreate \/ (\E u \in Users : P!OpenEdit(u)) \/ (\E t \in StaffBranches : P!OpenBranch(t))
  PROVE  StaffInv'
<1>1. CASE P!OpenCreate
  <2> DEFINE form == [mode |-> "create", for |-> New, id |-> Null, entry |-> P!BlankForm,
                      picture |-> Null]
  <2>1. P!BlankForm \in EntryTypes
    BY DEF P!BlankForm, EntryTypes, P!A!Roles
  <2>2. form \in FormTypes /\ Of(form)
    BY <2>1 DEF FormTypes, Modes, Subjects, Of
  <2>3. P!OpenForm(form)
    BY <1>1 DEF P!OpenCreate
  <2> QED BY <2>2, <2>3, OpenKeeps
<1>2. CASE \E u \in Users : P!OpenEdit(u)
  <2>1. PICK u \in Users : P!OpenEdit(u)
    BY <1>2
  <2> DEFINE e == [role |-> known[u].role, branch |-> known[u].branch,
                   moderates |-> known[u].moderates]
  <2> DEFINE form == [mode |-> "edit", for |-> u, id |-> u, picture |-> Null, entry |-> e]
  <2>2. u \in P!Existing(known) /\ P!OpenForm(form)
    BY <2>1 DEF P!OpenEdit
  <2>3. known[u] \in AccountRow /\ u \in P!Existing(staff)
    BY <2>2 DEF StaffInv, StaffTypes, StaffStay, P!Existing
  <2>4. e \in EntryTypes
    BY <2>3 DEF AccountRow, P!A!Account, EntryTypes
  <2> HIDE DEF e
  <2>5. form \in FormTypes /\ Of(form)
    BY <2>3, <2>4 DEF FormTypes, Modes, Subjects, Of
  <2> QED BY <2>2, <2>5, OpenKeeps
<1>3. CASE \E t \in StaffBranches : P!OpenBranch(t)
  <2>1. PICK t \in StaffBranches : P!OpenBranch(t)
    BY <1>3
  <2> DEFINE e == {u \in P!Existing(known) : t \in known[u].moderates}
  <2> DEFINE form == [mode |-> "branch", for |-> t, id |-> t, picture |-> Null, entry |-> e]
  <2>2. P!OpenForm(form) /\ e \in SUBSET Users
    BY <2>1 DEF P!OpenBranch, P!Existing
  <2> HIDE DEF e
  <2>3. form \in FormTypes /\ Of(form)
    BY <2>2 DEF FormTypes, Modes, Subjects, Of
  <2> QED BY <2>2, <2>3, OpenKeeps
<1> QED BY <1>1, <1>2, <1>3

LEMMA FillKeeps ==
  ASSUME P!StaffAssumption, StaffInv, P!Type \/ P!PickPicture
  PROVE  StaffInv'
<1>1. UNCHANGED <<staff, hands, known, saving, dialog, toggling>> /\ modal # Null
  BY DEF P!Type, P!PickPicture, P!Server, P!Cached, P!Toggle
<1>2. modal \in FormTypes /\ Of(modal)
  BY <1>1 DEF StaffInv, StaffTypes, FormOf
<1>3. modal' \in FormTypes /\ Of(modal')
  <2>1. ASSUME modal.mode = "branch", NEW ticked \in SUBSET Users,
               modal' = [modal EXCEPT !.entry = ticked]
        PROVE  modal' \in FormTypes /\ Of(modal')
    BY <1>2, <2>1 DEF FormTypes, Of
  <2>2. ASSUME modal.mode # "branch", NEW e \in EntryTypes, modal' = [modal EXCEPT !.entry = e]
        PROVE  modal' \in FormTypes /\ Of(modal')
    BY <1>2, <2>2 DEF FormTypes, Of
  <2>3. ASSUME modal.mode = "create", NEW u \in Users, modal' = [modal EXCEPT !.id = u]
        PROVE  modal' \in FormTypes /\ Of(modal')
    BY <1>2, <2>3 DEF FormTypes, Subjects, Of
  <2>4. ASSUME modal.mode # "branch", NEW picture \in {modal.for, Null},
               modal' = [modal EXCEPT !.picture = picture]
        PROVE  modal' \in FormTypes /\ Of(modal')
    BY <1>2, <2>4 DEF FormTypes, Subjects, Of
  <2>5. CASE P!PickPicture
    BY <2>4, <2>5 DEF P!PickPicture
  <2>6. CASE P!Type
    <3>1. P!Entry \subseteq EntryTypes
      BY DEF P!Entry, EntryTypes, P!StaffAssumption, P!Roles, P!A!Roles
    <3>2. CASE /\ modal.mode = "branch"
               /\ \E ticked \in SUBSET {u \in P!Existing(known) : known[u].role = "MODERATOR"} :
                    modal' = [modal EXCEPT !.entry = ticked]
      <4>1. PICK ticked \in SUBSET {u \in P!Existing(known) : known[u].role = "MODERATOR"} :
              modal' = [modal EXCEPT !.entry = ticked]
        BY <3>2
      <4>2. ticked \in SUBSET Users
        BY DEF P!Existing
      <4> QED BY <2>1, <3>2, <4>1, <4>2
    <3>3. CASE /\ modal.mode # "branch"
               /\ \E e \in P!Entry : modal' = [modal EXCEPT !.entry = e]
      BY <2>2, <3>1, <3>3
    <3>4. CASE /\ modal.mode = "create"
               /\ \E u \in Users : modal' = [modal EXCEPT !.id = u]
      BY <2>3, <3>4
    <3> QED BY <2>6, <3>2, <3>3, <3>4 DEF P!Type
  <2> QED BY <2>5, <2>6
<1>4. /\ P!Existing(staff) \subseteq P!Existing(staff')
      /\ P!FormsStayApart' /\ P!OperatorsHaveBranch'
  BY <1>1, RowsSame
<1>5. StaffTypes' /\ StaffStay'
  BY <1>1, <1>3 DEF StaffInv, StaffTypes, StaffStay
<1>6. FormOf'
  BY <1>1, <1>3 DEF FormOf, Of
<1>7. SaveOf'
  BY <1>1, <1>4, SavesStay
<1> QED BY <1>4, <1>5, <1>6, <1>7 DEF StaffInv

\* What is sent gives a branch to an operator and to nobody else.
LEMMA SentBranched ==
  ASSUME NEW e \in EntryTypes, ~P!BranchInvalid(e)
  PROVE  P!Payload(e) \in EntryTypes /\ Branched(P!Payload(e))
<1> DEFINE t == IF e.role = "OPERATOR" THEN e.branch ELSE NoBranch
<1> DEFINE s == IF e.role = "MODERATOR" THEN e.moderates ELSE {}
<1>1. t \in StaffBranches \union {NoBranch} /\ s \in SUBSET StaffBranches
  BY DEF EntryTypes
<1>2. P!Payload(e) = [[e EXCEPT !.branch = t] EXCEPT !.moderates = s]
  BY DEF P!Payload, EntryTypes
<1>3. e.role = "OPERATOR" => t # NoBranch
  BY DEF P!BranchInvalid
<1>4. e.role # "OPERATOR" => t = NoBranch
  OBVIOUS
<1> HIDE DEF t, s
<1>5. /\ P!Payload(e) \in EntryTypes /\ P!Payload(e).role = e.role /\ P!Payload(e).branch = t
  BY <1>1, <1>2 DEF EntryTypes
<1> QED BY <1>3, <1>4, <1>5 DEF Branched

LEMMA SaveFormKeeps ==
  ASSUME P!StaffAssumption, StaffInv, P!Save
  PROVE  StaffInv'
<1>1. UNCHANGED <<staff, hands, known, modal, dialog, toggling>> /\ modal # Null /\ modal.id # Null
  BY DEF P!Save, P!Server, P!Cached, P!Toggle
<1>2. modal \in FormTypes /\ Of(modal)
  BY <1>1 DEF StaffInv, StaffTypes, FormOf
<1> DEFINE e == IF modal.mode = "branch" THEN modal.entry ELSE P!Payload(modal.entry)
<1>3. saving' = [step |-> "row", mode |-> modal.mode, for |-> modal.for, id |-> modal.id,
                 picture |-> modal.picture, entry |-> e]
  BY DEF P!Save
<1>4. CASE modal.mode = "branch"
  <2>1. e = modal.entry
    BY <1>4
  <2> HIDE DEF e
  <2>2. saving' \in SaveTypes
    BY <1>2, <1>3, <1>4, <2>1 DEF FormTypes, SaveTypes
  <2>3. Of(saving') /\ saving'.id # Null /\ saving'.mode = "branch" /\ saving'.step = "row"
    BY <1>1, <1>2, <1>3, <1>4, <2>1 DEF Of
  <2> QED BY <1>1, <2>2, <2>3, RowsSame, FormsStay DEF StaffInv, StaffTypes, StaffStay, SaveOf, Of
<1>5. CASE modal.mode # "branch"
  <2>1. modal.mode \in {"create", "edit"} /\ modal.entry \in EntryTypes
    BY <1>2, <1>5 DEF FormTypes, Modes, Of
  <2>2. e \in EntryTypes /\ Branched(e)
    BY <1>5, <2>1, SentBranched DEF P!Save
  <2> HIDE DEF e
  <2>3. saving' \in SaveTypes
    BY <1>2, <1>3, <2>2 DEF FormTypes, SaveTypes
  <2>4. Of(saving') /\ saving'.id # Null /\ saving'.step = "row" /\ Branched(saving'.entry)
    BY <1>1, <1>2, <1>3, <2>1, <2>2 DEF Of
  <2> QED BY <1>1, <2>3, <2>4, RowsSame, FormsStay
      DEF StaffInv, StaffTypes, StaffStay, SaveOf, Of, Branched
<1> QED BY <1>4, <1>5


-----------------------------------------------------------------------------
(***************************************************************************)
(* Saves, and the lock of the list.                                        *)
(***************************************************************************)
\* The row of an account, and whose form it came from.
LEMMA AccountSaved ==
  ASSUME P!StaffAssumption, StaffInv, P!ServeRow, saving.mode # "branch"
  PROVE  /\ staff' \in [Users -> AccountRow \union {NoAccount}]
         /\ hands' \in [Users -> SUBSET (Users \union {New})]
         /\ P!Existing(staff) \subseteq P!Existing(staff')
         /\ P!FormsStayApart' /\ P!OperatorsHaveBranch'
         /\ saving.mode = "create" => saving.id \in Newcomers
<1>1. saving # Null /\ saving.step = "row"
  BY DEF P!ServeRow
<1>2. saving \in SaveTypes /\ Of(saving) /\ saving.id # Null /\ Branched(saving.entry)
  BY <1>1 DEF StaffInv, StaffTypes, SaveOf
<1>3. saving.mode \in {"create", "edit"} /\ saving.id \in Users /\ saving.entry \in EntryTypes
  BY <1>2 DEF SaveTypes, Modes, Of, P!Existing
<1> DEFINE u == saving.id
<1>4. PICK new \in AccountRow : staff' = [staff EXCEPT ![u] = new] /\ Branched(new)
  <2>1. CASE saving.mode = "create"
    <3> DEFINE new == [role |-> saving.entry.role, active |-> TRUE, branch |-> saving.entry.branch,
                       moderates |-> saving.entry.moderates]
    <3>1. staff' = [staff EXCEPT ![u] = new]
      BY <2>1 DEF P!ServeRow, P!Stored
    <3>2. new \in AccountRow /\ Branched(new)
      BY <1>2, <1>3 DEF EntryTypes, AccountRow, P!A!Account, Branched
    <3> QED BY <3>1, <3>2
  <2>2. CASE saving.mode = "edit"
    <3>1. u \in P!Existing(staff)
      BY <1>2, <2>2 DEF Of
    <3>2. staff[u] \in AccountRow
      BY <3>1 DEF StaffInv, StaffTypes, P!Existing
    <3>3. staff' = [staff EXCEPT ![u] = P!A!Edited(staff[u], saving.entry)]
      BY <2>2 DEF P!ServeRow, P!Stored
    <3> QED BY <1>2, <1>3, <3>2, <3>3, EditedRow
  <2> QED BY <1>3, <2>1, <2>2
<1>5. PICK v \in Users : v = u
  BY <1>3
<1>6. /\ staff' \in [Users -> AccountRow \union {NoAccount}]
      /\ P!Existing(staff) \subseteq P!Existing(staff') /\ P!OperatorsHaveBranch'
  BY <1>4, <1>5, RowWritten
<1>7. saving.mode = "create" => u \in Newcomers
  BY <1>3 DEF P!ServeRow, StaffInv, StaffStay
<1>8. /\ hands' = [hands EXCEPT ![u] = @ \union {saving.for}]
      /\ hands \in [Users -> SUBSET (Users \union {New})]
  BY DEF P!ServeRow, StaffInv, StaffTypes
<1>9. saving.for = u \/ (saving.for = New /\ u \in Newcomers)
  BY <1>2, <1>3, <1>7 DEF Of
<1>10. hands' \in [Users -> SUBSET (Users \union {New})]
  BY <1>3, <1>8, <1>9
<1>11. P!FormsStayApart'
  BY <1>3, <1>8, <1>9 DEF StaffInv, P!FormsStayApart
<1> QED BY <1>6, <1>7, <1>10, <1>11

\* The moderators of a branch.
LEMMA BranchSaved ==
  ASSUME P!StaffAssumption, StaffInv, P!ServeRow, saving.mode = "branch"
  PROVE  /\ staff' \in [Users -> AccountRow \union {NoAccount}]
         /\ hands' = hands /\ P!Existing(staff) \subseteq P!Existing(staff')
         /\ P!FormsStayApart' /\ P!OperatorsHaveBranch'
<1>1. saving # Null /\ hands' = hands
  BY DEF P!ServeRow
<1>2. saving.id \in StaffBranches
  BY <1>1 DEF StaffInv, SaveOf, Of
<1> DEFINE Ticked(u) == IF u \in saving.entry THEN staff[u].moderates \union {saving.id}
                        ELSE staff[u].moderates \ {saving.id}
<1>3. staff' = [u \in Users |-> IF u \notin P!Existing(staff) THEN staff[u]
                                ELSE [staff[u] EXCEPT !.moderates = Ticked(u)]]
  BY DEF P!ServeRow, P!Stored
<1>4. ASSUME NEW u \in P!Existing(staff)
      PROVE  /\ staff'[u] \in AccountRow /\ staff'[u] # NoAccount
             /\ staff'[u].role = staff[u].role /\ staff'[u].branch = staff[u].branch
  <2>1. staff[u] \in P!A!Account /\ u \in Users
    BY DEF StaffInv, StaffTypes, P!Existing, AccountRow
  <2>2. Ticked(u) \in SUBSET StaffBranches
    BY <1>2, <2>1 DEF P!A!Account
  <2> HIDE DEF Ticked
  <2>3. staff'[u] = [staff[u] EXCEPT !.moderates = Ticked(u)]
    BY <1>3, <2>1
  <2> QED BY <2>1, <2>2, <2>3 DEF P!A!Account, AccountRow, P!StaffAssumption
<1> HIDE DEF Ticked
<1>5. ASSUME NEW u \in Users, u \notin P!Existing(staff) PROVE staff'[u] = staff[u]
  BY <1>3, <1>5
<1>6. staff' \in [Users -> AccountRow \union {NoAccount}]
  <2>1. \A u \in Users : staff'[u] \in AccountRow \union {NoAccount}
    BY <1>4, <1>5 DEF StaffInv, StaffTypes
  <2>2. DOMAIN staff' = Users /\ staff' = [u \in Users |-> staff'[u]]
    BY <1>3
  <2> QED BY <2>1, <2>2
<1>7. P!Existing(staff') = P!Existing(staff)
  BY <1>4, <1>5 DEF P!Existing
<1>8. P!OperatorsHaveBranch'
  BY <1>4, <1>7 DEF StaffInv, P!OperatorsHaveBranch
<1>9. P!FormsStayApart'
  BY <1>1 DEF StaffInv, P!FormsStayApart
<1> QED BY <1>1, <1>6, <1>7, <1>8, <1>9

LEMMA ServeRowKeeps ==
  ASSUME P!StaffAssumption, StaffInv, P!ServeRow
  PROVE  StaffInv'
<1>1. UNCHANGED <<known, modal, dialog, toggling>> /\ saving # Null
  BY DEF P!ServeRow, P!Cached, P!Toggle
<1>2. saving \in SaveTypes /\ Of(saving) /\ saving.id # Null
      /\ (saving.mode # "branch" => Branched(saving.entry))
  BY <1>1 DEF StaffInv, StaffTypes, SaveOf
<1>3. /\ staff' \in [Users -> AccountRow \union {NoAccount}]
      /\ hands' \in [Users -> SUBSET (Users \union {New})]
      /\ P!Existing(staff) \subseteq P!Existing(staff')
      /\ P!FormsStayApart' /\ P!OperatorsHaveBranch'
      /\ saving.mode = "create" => saving.id \in Newcomers
  BY AccountSaved, BranchSaved DEF StaffInv, StaffTypes
<1>4. PICK step \in {"picture", "done"} :
        saving' = [saving EXCEPT !.step = step] /\ (step = "picture" => saving.picture # Null)
  <2>1. CASE saving.picture = Null
    BY <2>1 DEF P!ServeRow
  <2>2. CASE saving.picture # Null
    BY <2>2 DEF P!ServeRow
  <2> QED BY <2>1, <2>2
<1>5. /\ saving' \in SaveTypes /\ saving'.step = step
      /\ saving'.mode = saving.mode /\ saving'.for = saving.for /\ saving'.id = saving.id
      /\ saving'.picture = saving.picture /\ saving'.entry = saving.entry
  BY <1>2, <1>4 DEF SaveTypes
<1>6. Of(saving')
  BY <1>2, <1>5 DEF Of
<1>7. (Of(saving))'
  BY <1>3, <1>6 DEF Of
<1>8. SaveOf'
  BY <1>2, <1>3, <1>4, <1>5, <1>7 DEF SaveOf, Branched
<1>9. StaffTypes'
  BY <1>1, <1>3, <1>5 DEF StaffInv, StaffTypes
<1>10. StaffStay'
  BY <1>1, <1>3 DEF StaffInv, StaffStay
<1>11. FormOf'
  BY <1>1, <1>3, FormsStay
<1> QED BY <1>3, <1>8, <1>9, <1>10, <1>11 DEF StaffInv

LEMMA ServePictureKeeps ==
  ASSUME P!StaffAssumption, StaffInv, P!ServePicture
  PROVE  StaffInv'
<1>1. /\ UNCHANGED <<staff, known, modal, dialog, toggling>> /\ saving # Null
      /\ saving.step = "picture"
      /\ hands' = [hands EXCEPT ![saving.id] = @ \union {saving.picture}]
      /\ saving' = [saving EXCEPT !.step = "done"]
  BY DEF P!ServePicture, P!Pictured, P!Cached, P!Toggle
<1>2. /\ saving \in SaveTypes /\ Of(saving) /\ saving.id # Null /\ saving.picture # Null
      /\ saving.mode # "branch" => Branched(saving.entry)
      /\ saving.mode = "create" => saving.id \in Newcomers
      /\ hands \in [Users -> SUBSET (Users \union {New})]
  BY <1>1 DEF StaffInv, StaffTypes, SaveOf
<1>3. /\ saving.id \in Users
      /\ saving.picture = saving.id \/ (saving.picture = New /\ saving.id \in Newcomers)
  BY <1>2 DEF SaveTypes, Modes, Of, P!Existing
<1>4. hands' \in [Users -> SUBSET (Users \union {New})]
  BY <1>1, <1>2, <1>3
<1>5. P!FormsStayApart'
  BY <1>1, <1>2, <1>3 DEF StaffInv, P!FormsStayApart
<1>6. /\ saving' \in SaveTypes /\ saving'.step = "done"
      /\ saving'.mode = saving.mode /\ saving'.for = saving.for /\ saving'.id = saving.id
      /\ saving'.picture = saving.picture /\ saving'.entry = saving.entry
  BY <1>1, <1>2 DEF SaveTypes
<1>7. Of(saving')
  BY <1>2, <1>6 DEF Of
<1>8. SaveOf'
  BY <1>1, <1>2, <1>6, <1>7 DEF SaveOf, Branched, Of
<1>9. P!OperatorsHaveBranch'
  BY <1>1 DEF StaffInv, P!OperatorsHaveBranch
<1>10. StaffTypes' /\ StaffStay'
  BY <1>1, <1>4, <1>6 DEF StaffInv, StaffTypes, StaffStay
<1>11. FormOf'
  BY <1>1, FormsStay
<1> QED BY <1>5, <1>8, <1>9, <1>10, <1>11 DEF StaffInv

\* Forms and dialogs are left, lists are fetched.
LEMMA StaffEnds ==
  ASSUME StaffInv, staff' = staff, hands' = hands, known' \in {known, staff},
         modal' \in {modal, Null}, saving' \in {saving, Null}, dialog' \in {dialog, Null},
         toggling' \in {toggling, Null}
  PROVE  StaffInv'
<1>1. /\ P!Existing(staff) \subseteq P!Existing(staff')
      /\ P!FormsStayApart' /\ P!OperatorsHaveBranch'
  BY RowsSame
<1>2. StaffTypes'
  BY DEF StaffInv, StaffTypes
<1>3. StaffStay'
  BY DEF StaffInv, StaffStay
<1> QED BY <1>1, <1>2, <1>3, FormsStay, SavesStay DEF StaffInv

LEMMA EndsKeep ==
  ASSUME StaffInv,
         P!Visit \/ P!Close \/ P!Saved \/ P!SaveFailed \/ P!Fetched \/ P!CloseDialog \/ P!Toggled
  PROVE  StaffInv'
<1>1. CASE P!Visit \/ P!Close \/ P!SaveFailed
  BY <1>1, StaffEnds DEF P!Visit, P!Close, P!SaveFailed, P!Server, P!Cached, P!Toggle
<1>2. CASE P!Saved \/ P!Fetched
  BY <1>2, StaffEnds DEF P!Saved, P!Fetched, P!Server, P!Toggle
<1>3. CASE P!CloseDialog \/ P!Toggled
  BY <1>3, StaffEnds DEF P!CloseDialog, P!Toggled, P!Server, P!Cached
<1> QED BY <1>1, <1>2, <1>3

LEMMA AskToggleKeeps ==
  ASSUME StaffInv, NEW u \in Users, P!AskToggle(u)
  PROVE  StaffInv'
<1>1. /\ UNCHANGED <<staff, hands, known, modal, saving, toggling>>
      /\ u \in P!Existing(known) /\ dialog' = [id |-> u, active |-> known[u].active]
  BY DEF P!AskToggle, P!Server, P!Cached
<1>2. known[u] \in AccountRow /\ u \in P!Existing(staff)
  BY <1>1 DEF StaffInv, StaffTypes, StaffStay, P!Existing
<1>3. dialog' \in [id : Users, active : BOOLEAN] /\ dialog'.id = u
  BY <1>1, <1>2 DEF AccountRow, P!A!Account
<1>4. StaffTypes' /\ StaffStay'
  BY <1>1, <1>2, <1>3 DEF StaffInv, StaffTypes, StaffStay
<1> QED BY <1>1, <1>4, RowsSame, FormsStay, SavesStay DEF StaffInv

LEMMA ConfirmKeeps ==
  ASSUME StaffInv, P!Confirm
  PROVE  StaffInv'
<1>1. /\ UNCHANGED <<staff, hands, known, modal, saving, dialog>> /\ dialog # Null
      /\ toggling' = [id |-> dialog.id, active |-> ~dialog.active, served |-> FALSE]
  BY DEF P!Confirm, P!Server, P!Cached
<1>2. dialog \in [id : Users, active : BOOLEAN] /\ dialog.id \in P!Existing(staff)
  BY <1>1 DEF StaffInv, StaffTypes, StaffStay
<1>3. toggling' \in [id : Users, active : BOOLEAN, served : BOOLEAN] /\ toggling'.id = dialog.id
  BY <1>1, <1>2
<1>4. StaffTypes' /\ StaffStay'
  BY <1>1, <1>2, <1>3 DEF StaffInv, StaffTypes, StaffStay
<1> QED BY <1>1, <1>4, RowsSame, FormsStay, SavesStay DEF StaffInv

LEMMA ServeToggleKeeps ==
  ASSUME P!StaffAssumption, StaffInv, P!ServeToggle
  PROVE  StaffInv'
<1>1. /\ UNCHANGED <<hands, known, modal, saving, dialog>> /\ toggling # Null
      /\ staff' = [staff EXCEPT ![toggling.id].active = toggling.active]
      /\ toggling' = [toggling EXCEPT !.served = TRUE]
  BY DEF P!ServeToggle, P!Cached
<1>2. PICK u \in Users : u = toggling.id
  BY <1>1 DEF StaffInv, StaffTypes
<1>3. /\ toggling \in [id : Users, active : BOOLEAN, served : BOOLEAN]
      /\ u \in P!Existing(staff) /\ staff[u] \in P!A!Account
      /\ Branched(staff[u])
  BY <1>1, <1>2
  DEF StaffInv, StaffTypes, StaffStay, P!Existing, AccountRow, P!OperatorsHaveBranch, Branched
<1> DEFINE new == [staff[u] EXCEPT !.active = toggling.active]
<1>4. staff' = [staff EXCEPT ![u] = new]
  BY <1>1, <1>2
<1>5. new \in AccountRow /\ Branched(new)
  BY <1>3 DEF AccountRow, P!A!Account, Branched
<1> HIDE DEF new
<1>6. /\ staff' \in [Users -> AccountRow \union {NoAccount}]
      /\ P!Existing(staff) \subseteq P!Existing(staff') /\ P!OperatorsHaveBranch'
  BY <1>4, <1>5, RowWritten
<1>7. /\ toggling' \in [id : Users, active : BOOLEAN, served : BOOLEAN]
      /\ toggling'.id = toggling.id
  BY <1>1, <1>3
<1>8. StaffTypes' /\ StaffStay'
  BY <1>1, <1>6, <1>7 DEF StaffInv, StaffTypes, StaffStay
<1>9. P!FormsStayApart'
  BY <1>1 DEF StaffInv, P!FormsStayApart
<1> QED BY <1>1, <1>6, <1>8, <1>9, FormsStay, SavesStay DEF StaffInv

LEMMA ForeignSaveKeeps ==
  ASSUME P!StaffAssumption, StaffInv, NEW u \in Users, P!ForeignSave(u)
  PROVE  StaffInv'
<1>1. /\ UNCHANGED <<hands, known, modal, saving, dialog, toggling>> /\ u \in P!Existing(staff)
  BY DEF P!ForeignSave, P!Cached, P!Toggle
<1>2. PICK f \in P!A!Forms : staff' = [staff EXCEPT ![u] = P!A!Edited(staff[u], f)]
  BY DEF P!ForeignSave
<1>3. staff[u] \in AccountRow
  BY <1>1 DEF StaffInv, StaffTypes, P!Existing
<1>4. f \in EntryTypes /\ Branched(f)
  BY DEF P!A!Forms, EntryTypes, Branched
<1>5. /\ staff' \in [Users -> AccountRow \union {NoAccount}]
      /\ P!Existing(staff) \subseteq P!Existing(staff') /\ P!OperatorsHaveBranch'
  BY <1>2, <1>3, <1>4, EditedRow, RowWritten
<1>6. StaffTypes' /\ StaffStay'
  BY <1>1, <1>5 DEF StaffInv, StaffTypes, StaffStay
<1>7. P!FormsStayApart'
  BY <1>1 DEF StaffInv, P!FormsStayApart
<1> QED BY <1>1, <1>5, <1>6, <1>7, FormsStay, SavesStay DEF StaffInv

-----------------------------------------------------------------------------
LEMMA InitStaff ==
  ASSUME P!StaffAssumption, P!Init
  PROVE  StaffInv
<1> DEFINE first == [role |-> "MODERATOR", active |-> TRUE, branch |-> NoBranch,
                     moderates |-> StaffBranches]
<1>1. /\ staff = [u \in Users |-> IF u \in Newcomers THEN NoAccount ELSE first]
      /\ hands = [u \in Users |-> {}] /\ known = staff
      /\ modal = Null /\ saving = Null /\ dialog = Null /\ toggling = Null
  BY DEF P!Init
<1>2. first \in AccountRow /\ first # NoAccount /\ first.role # "OPERATOR" /\ first.branch = NoBranch
  <2>1. "MODERATOR" \in P!A!Roles /\ StaffBranches \in SUBSET StaffBranches
    BY DEF P!A!Roles
  <2>2. first \in P!A!Account
    BY <2>1 DEF P!A!Account
  <2> QED BY <2>2 DEF AccountRow, P!StaffAssumption
<1> HIDE DEF first
<1>3. StaffTypes
  BY <1>1, <1>2 DEF StaffTypes
<1>4. StaffStay /\ FormOf /\ SaveOf
  BY <1>1, <1>2 DEF StaffStay, FormOf, SaveOf, P!Existing
<1>5. P!FormsStayApart /\ P!OperatorsHaveBranch
  BY <1>1, <1>2 DEF P!FormsStayApart, P!OperatorsHaveBranch, P!Existing
<1> QED BY <1>3, <1>4, <1>5 DEF StaffInv

LEMMA NextStaff ==
  ASSUME P!StaffAssumption, StaffInv, [P!Next]_pVars
  PROVE  StaffInv'
<1>1. CASE P!OpenCreate \/ (\E u \in Users : P!OpenEdit(u)) \/ (\E t \in StaffBranches : P!OpenBranch(t))
  BY <1>1, OpenFormsKeep
<1>2. CASE P!Type \/ P!PickPicture
  BY <1>2, FillKeeps
<1>3. CASE P!Save \/ P!ServeRow \/ P!ServePicture
  BY <1>3, SaveFormKeeps, ServeRowKeeps, ServePictureKeeps
<1>4. CASE P!Visit \/ P!Close \/ P!Saved \/ P!SaveFailed \/ P!Fetched \/ P!CloseDialog \/ P!Toggled
  BY <1>4, EndsKeep
<1>5. CASE \E u \in Users : P!AskToggle(u) \/ P!ForeignSave(u)
  BY <1>5, AskToggleKeeps, ForeignSaveKeeps
<1>6. CASE P!Confirm \/ P!ServeToggle
  BY <1>6, ConfirmKeeps, ServeToggleKeeps
<1>7. CASE UNCHANGED pVars
  BY <1>7, StaffEnds DEF pVars
<1> QED BY <1>1, <1>2, <1>3, <1>4, <1>5, <1>6, <1>7 DEF P!Next

-----------------------------------------------------------------------------
(***************************************************************************)
(* The settings.  SettingsInv is inductive: every copy of the              *)
(* configuration, in a form, in a request or in an answer, has rates that  *)
(* were typed or rounded once; and while requests run one at a time, the   *)
(* one that runs knows what the last record says, and the form of the only *)
(* card in use differs from what is stored by what was typed alone.        *)
(***************************************************************************)
Round(v) == 10 * ((v + 5) \div 10)

\* A rate that was typed, or is a typed one rounded.
RateTyped(f, x) == \E v \in Typed[f] \union {Start["config"][f]} : x \in {v, Round(v)}

CardRows ==
  IF card = "config" THEN {r \in G!ConfigRow : \A f \in Rates : RateTyped(f, r[f])} ELSE G!DayRow

CardPages == [data : CardRows \union {Null}, form : CardRows \union {Null}, dirty : BOOLEAN,
              fetch : CardRows \union {Null}]

CardSteps == IF card = "config" THEN {"check", "upsert", "read", "audit", "answer"}
             ELSE {"check", "items", "read", "answer"}

CardRequests == [step : CardSteps, sent : CardRows, old : CardRows \union {Null},
                 new : CardRows \union {Null}, left : Seq(G!StepSet)]

SettingsTypes ==
  /\ card \in G!Cards /\ calm \in BOOLEAN
  /\ rowsKept \in CardRows
  /\ page \in [Windows -> CardPages]
  /\ gReq \in [Windows -> CardRequests \union {G!Idle}]

\* A save under way has a form, and what its step needs.
Equipped(w) ==
  /\ page[w].form # Null <=> page[w].data # Null
  /\ gReq[w] # G!Idle => page[w].form # Null
  /\ gReq[w].step = "upsert" =>
       gReq[w].sent[G!Min] <= gReq[w].sent[G!Max] /\ gReq[w].old # Null
  /\ gReq[w].step \in {"read", "audit"} /\ card = "config" => gReq[w].old # Null
  /\ gReq[w].step \in {"audit", "answer"} => gReq[w].new # Null
  /\ gReq[w].step = "items" => gReq[w].left # << >>

SavesInv == \A w \in Windows : Equipped(w)

LimitsInv == card = "config" => rowsKept[G!Min] <= rowsKept[G!Max]

\* What is sent is stored once it was written, and is what is answered.
Written(w) ==
  /\ gReq[w].step = "items" =>
       \A s \in G!StepSet : rowsKept[s] = gReq[w].sent[s]
                            \/ \E i \in 1..Len(gReq[w].left) : gReq[w].left[i] = s
  /\ gReq[w].step \in {"read", "audit", "answer"} => gReq[w].sent = rowsKept
  /\ gReq[w].step \in {"audit", "answer"} => gReq[w].new = rowsKept

NothingRuns == \A v \in Windows : gReq[v] = G!Idle /\ page[v].fetch = Null

OnlySaves(w) == \A v \in Windows : page[v].fetch = Null /\ (v # w => gReq[v] = G!Idle)

OnlyFetches(w) == \A v \in Windows : gReq[v] = G!Idle /\ (v # w => page[v].fetch = Null)

\* One save or one fetch at a time.
AloneInv ==
  \A w \in Windows :
    /\ gReq[w] # G!Idle => OnlySaves(w)
    /\ page[w].fetch # Null => OnlyFetches(w) /\ page[w].fetch = rowsKept
    /\ Written(w)

\* The configuration that the records lead to.
Recorded == IF log = << >> THEN Start["config"] ELSE log[Len(log)].newValue

RecordsInv ==
  /\ log \in Seq([oldValue : CardRows, newValue : CardRows])
  /\ \A i \in 2..Len(log) : log[i].oldValue = log[i - 1].newValue
  /\ log # << >> => log[1].oldValue = Start["config"]
  /\ (\A w \in Windows : gReq[w].step \notin {"read", "audit"}) => Recorded = rowsKept
  /\ \A w \in Windows : gReq[w].step \in {"upsert", "read", "audit"} => gReq[w].old = Recorded

\* Rows that the page shows alike.
Same(r, s) == IF card = "config" THEN \A f \in Rates : Round(r[f]) = Round(s[f]) ELSE r = s

Fits(w) ==
  ~page[w].dirty =>
    /\ gReq[w] # G!Idle => Same(page[w].form, gReq[w].sent)
    /\ page[w].fetch # Null => Same(page[w].form, page[w].data)
    /\ gReq[w] = G!Idle /\ page[w].fetch = Null => Same(page[w].form, rowsKept)

OnlyForm(w) == page[w].form # Null /\ \A v \in Windows \ {w} : page[v].form = Null

FormInv == \A w \in Windows : OnlyForm(w) => Fits(w)

SettingsInv ==
  /\ SettingsTypes /\ SavesInv /\ LimitsInv
  /\ calm => AloneInv /\ FormInv
  /\ calm /\ card = "config" => RecordsInv

-----------------------------------------------------------------------------
(***************************************************************************)
(* Rows.                                                                   *)
(***************************************************************************)
LEMMA RoundTwice ==
  ASSUME NEW v \in Int
  PROVE  Round(v) \in Int /\ Round(Round(v)) = Round(v)
BY DEF Round

LEMMA RatesWhole ==
  ASSUME G!SettingsAssumption, NEW f \in Rates, NEW x, RateTyped(f, x)
  PROVE  x \in Int /\ RateTyped(f, Round(x)) /\ Round(Round(x)) = Round(x)
<1>1. PICK v \in Typed[f] \union {Start["config"][f]} : x \in {v, Round(v)}
  BY DEF RateTyped
<1>2. f \in G!Fields
  BY DEF G!Fields
<1>3. Typed[f] \subseteq Int /\ Start["config"] \in [G!Fields -> Int]
  BY <1>2 DEF G!SettingsAssumption, G!ConfigRow
<1>4. v \in Int
  BY <1>2, <1>3
<1>5. x \in Int /\ Round(x) = Round(v)
  BY <1>1, <1>4, RoundTwice
<1> QED BY <1>5, RoundTwice DEF RateTyped

LEMMA RowsNotNull ==
  ASSUME G!SettingsAssumption, NEW r \in CardRows
  PROVE  r # Null
BY DEF G!SettingsAssumption, CardRows

LEMMA ConfigRows ==
  ASSUME card = "config", NEW r
  PROVE  r \in CardRows <=> r \in [G!Fields -> Int] /\ \A f \in Rates : RateTyped(f, r[f])
BY DEF CardRows, G!ConfigRow

LEMMA DayRows ==
  ASSUME card \in G!Cards, card # "config"
  PROVE  CardRows = [G!StepSet -> [days : 1..60, enabled : BOOLEAN]] /\ card = "days"
BY DEF CardRows, G!DayRow, G!Cards

\* What is shown is a row, and would be shown alike.
LEMMA DisplayRow ==
  ASSUME G!SettingsAssumption, card \in G!Cards, NEW r \in CardRows
  PROVE  G!Display(r) \in CardRows /\ Same(G!Display(r), r)
<1>1. CASE card = "config"
  <2> DEFINE new == G!Shown(r)
  <2>1. r \in [G!Fields -> Int] /\ \A f \in Rates : RateTyped(f, r[f])
    BY <1>1, ConfigRows
  <2>2. new = [f \in G!Fields |-> IF f \in Rates THEN Round(r[f]) ELSE r[f]]
    BY DEF G!Shown, Round
  <2> HIDE DEF new
  <2>3. Rates \subseteq G!Fields
    BY DEF G!Fields
  <2>4. \A f \in Rates : RateTyped(f, Round(r[f])) /\ Round(Round(r[f])) = Round(r[f])
    BY <2>1, RatesWhole
  <2>5. \A f \in Rates : new[f] = Round(r[f])
    BY <2>2, <2>3
  <2>6. \A f \in G!Fields : new[f] \in Int
    BY <2>1, <2>2, RoundTwice
  <2>7. new \in [G!Fields -> Int]
    BY <2>2, <2>6
  <2>8. new \in CardRows
    BY <1>1, <2>4, <2>5, <2>7, ConfigRows
  <2>9. G!Display(r) = new
    BY <1>1 DEF G!Display, new
  <2> QED BY <1>1, <2>4, <2>5, <2>8, <2>9 DEF Same
<1>2. CASE card # "config"
  BY <1>2 DEF G!Display, Same
<1> QED BY <1>1, <1>2

LEMMA BetweenLimits ==
  ASSUME NEW low \in Int, NEW high \in Int, low <= high, NEW v \in Int
  PROVE  /\ G!Between(low, v, high) \in low..high
         /\ v \in low..high => G!Between(low, v, high) = v
BY DEF G!Between

\* What is sent is the form, but for a pause limit out of its range.
LEMMA SentRow ==
  ASSUME G!SettingsAssumption, card \in G!Cards, NEW r \in CardRows
  PROVE  /\ G!Sent(r) \in CardRows /\ Same(r, G!Sent(r))
<1>1. CASE card = "config"
  <2> DEFINE pause == G!Between(0, r["maxPauseDays"], 60)
  <2>1. r \in [G!Fields -> Int] /\ \A f \in Rates : RateTyped(f, r[f])
    BY <1>1, ConfigRows
  <2>2. "maxPauseDays" \in G!Fields /\ "maxPauseDays" \notin Rates /\ Rates \subseteq G!Fields
    BY DEF G!Fields, G!SettingsAssumption
  <2>3. pause \in Int
    BY <2>1, <2>2, BetweenLimits
  <2>4. G!Sent(r) = [r EXCEPT !["maxPauseDays"] = pause]
    BY <1>1 DEF G!Sent
  <2> HIDE DEF pause
  <2>5. G!Sent(r) \in [G!Fields -> Int] /\ \A f \in Rates : G!Sent(r)[f] = r[f]
    BY <2>1, <2>2, <2>3, <2>4
  <2> QED BY <1>1, <2>1, <2>5, ConfigRows DEF Same
<1>2. CASE card # "config"
  <2>1. r \in [G!StepSet -> [days : 1..60, enabled : BOOLEAN]] /\ card = "days"
    BY <1>2, DayRows
  <2>2. ASSUME NEW s \in G!StepSet
        PROVE  [r[s] EXCEPT !.days = G!Between(1, r[s].days, 60)] = r[s]
    <3>1. r[s] \in [days : 1..60, enabled : BOOLEAN]
      BY <2>1
    <3>2. r[s].days \in 1..60 /\ r[s].days \in Int
      BY <3>1
    <3>3. G!Between(1, r[s].days, 60) = r[s].days
      BY <3>2 DEF G!Between
    <3> QED BY <3>1, <3>3
  <2>3. G!Sent(r) = [s \in G!StepSet |-> [r[s] EXCEPT !.days = G!Between(1, r[s].days, 60)]]
    BY <2>1 DEF G!Sent
  <2>4. G!Sent(r) = r
    BY <2>1, <2>2, <2>3
  <2> QED BY <2>1, <2>4 DEF Same
<1> QED BY <1>1, <1>2

LEMMA SameTwice ==
  ASSUME NEW p, NEW q, NEW r, Same(p, q), Same(q, r)
  PROVE  Same(p, r) /\ Same(q, p)
BY DEF Same


-----------------------------------------------------------------------------
(***************************************************************************)
(* A step of one window.                                                   *)
(***************************************************************************)
LEMMA RequestStep ==
  ASSUME NEW q \in CardRequests
  PROVE  /\ q # G!Idle /\ q.step # "idle" /\ q.step \in CardSteps
         /\ \A step \in CardSteps :
              LET new == [q EXCEPT !.step = step]
              IN  /\ new \in CardRequests /\ new.step = step /\ new.sent = q.sent
                  /\ new.old = q.old /\ new.new = q.new /\ new.left = q.left
<1>1. q.step \in CardSteps /\ q.step # "idle"
  BY DEF CardRequests, CardSteps
<1>2. q # G!Idle
  BY <1>1 DEF G!Idle
<1> QED BY <1>1, <1>2 DEF CardRequests

\* A window asks for something, with its request at a step.
LEMMA Asking ==
  ASSUME SettingsInv, NEW w \in Windows, gReq[w].step # "idle"
  PROVE  /\ gReq[w] \in CardRequests /\ gReq[w] # G!Idle /\ page[w].form # Null
         /\ page[w] \in CardPages /\ Equipped(w)
         /\ calm => OnlySaves(w) /\ Written(w)
<1>1. gReq[w] # G!Idle
  BY DEF G!Idle
<1> QED BY <1>1 DEF SettingsInv, SettingsTypes, SavesInv, Equipped, AloneInv

\* Only the page and the request of one window change.
OneWindow(w) ==
  /\ UNCHANGED <<calm, card>>
  /\ page' \in [Windows -> CardPages] /\ gReq' \in [Windows -> CardRequests \union {G!Idle}]
  /\ \A v \in Windows : v # w => page'[v] = page[v] /\ gReq'[v] = gReq[v]

LEMMA PagePut ==
  ASSUME SettingsInv, NEW w \in Windows, NEW p \in CardPages, page' = [page EXCEPT ![w] = p],
         UNCHANGED <<calm, card, gReq>>
  PROVE  OneWindow(w) /\ page'[w] = p /\ gReq'[w] = gReq[w]
BY DEF SettingsInv, SettingsTypes, OneWindow, CardPages, CardRows, CardRequests, CardSteps

LEMMA RequestPut ==
  ASSUME SettingsInv, NEW w \in Windows, NEW q \in CardRequests \union {G!Idle}, G!Goto(w, q),
         UNCHANGED <<calm, card, page>>
  PROVE  OneWindow(w) /\ gReq'[w] = q /\ page'[w] = page[w]
BY DEF SettingsInv, SettingsTypes, OneWindow, G!Goto, CardPages, CardRows, CardRequests, CardSteps

LEMMA BothPut ==
  ASSUME SettingsInv, NEW w \in Windows, NEW q \in CardRequests \union {G!Idle}, G!Goto(w, q),
         NEW p \in CardPages, page' = [page EXCEPT ![w] = p], UNCHANGED <<calm, card>>
  PROVE  OneWindow(w) /\ gReq'[w] = q /\ page'[w] = p
BY DEF SettingsInv, SettingsTypes, OneWindow, G!Goto, CardPages, CardRows, CardRequests, CardSteps

LEMMA SavesEquipped ==
  ASSUME SettingsInv, NEW w \in Windows, OneWindow(w), (Equipped(w))'
  PROVE  SavesInv'
<1>1. ASSUME NEW v \in Windows, v # w PROVE (Equipped(v))'
  <2>1. Equipped(v) /\ page'[v] = page[v] /\ gReq'[v] = gReq[v] /\ card' = card
    BY <1>1 DEF SettingsInv, SavesInv, OneWindow
  <2> QED BY <2>1 DEF Equipped
<1> QED BY <1>1 DEF SavesInv

\* While one save runs, what is stored and answered concerns nobody else.
LEMMA AloneSaves ==
  ASSUME SettingsInv, NEW w \in Windows, OneWindow(w), OnlySaves(w), page'[w].fetch = Null,
         (Written(w))'
  PROVE  AloneInv'
<1>1. ASSUME NEW v \in Windows PROVE /\ page'[v].fetch = Null /\ (v # w => gReq'[v] = G!Idle)
  BY DEF OneWindow, OnlySaves
<1>2. (OnlySaves(w))'
  BY <1>1 DEF OnlySaves
<1>3. ASSUME NEW v \in Windows, v # w PROVE (Written(v))'
  BY <1>1, <1>3 DEF Written, G!Idle
<1> QED BY <1>1, <1>2, <1>3 DEF AloneInv

\* The form of another window does not matter where this one has its own.
LEMMA FormAlone ==
  ASSUME NEW w \in Windows, page'[w].form # Null, (OnlyForm(w))' => (Fits(w))'
  PROVE  FormInv'
<1>1. ASSUME NEW v \in Windows, v # w PROVE ~(OnlyForm(v))'
  BY <1>1 DEF OnlyForm
<1> QED BY <1>1 DEF FormInv

LEMMA OnlyFormWas ==
  ASSUME NEW w \in Windows, OneWindow(w), (OnlyForm(w))', page[w].form # Null
  PROVE  OnlyForm(w)
BY DEF OnlyForm, OneWindow


-----------------------------------------------------------------------------
(***************************************************************************)
(* The page.                                                               *)
(***************************************************************************)
\* What a fetch or an answer makes of a form.
LEMMA Received ==
  ASSUME G!SettingsAssumption, SettingsInv, NEW w \in Windows, NEW answer \in CardRows
  PROVE  LET p == G!Receive(w, answer)
         IN  /\ p \in CardPages /\ p.fetch = page[w].fetch
             /\ p.data = answer /\ answer # Null
             /\ page[w].data # answer => ~p.dirty /\ p.form \in CardRows /\ p.form # Null
                                         /\ Same(p.form, answer)
             /\ page[w].data = answer => p = page[w]
<1>1. /\ page[w] \in CardPages /\ card \in G!Cards /\ answer # Null
  BY RowsNotNull DEF SettingsInv, SettingsTypes
<1>2. CASE page[w].data = answer
  BY <1>1, <1>2 DEF G!Receive
<1>3. CASE page[w].data # answer
  <2> DEFINE shown == G!Display(answer)
  <2>1. shown \in CardRows /\ shown # Null /\ Same(shown, answer)
    BY <1>1, DisplayRow, RowsNotNull
  <2> HIDE DEF shown
  <2>2. G!Receive(w, answer) = [[[page[w] EXCEPT !.data = answer] EXCEPT !.form = shown]
                                 EXCEPT !.dirty = FALSE]
    BY <1>1, <1>3 DEF G!Receive, CardPages, shown
  <2> QED BY <1>1, <1>3, <2>1, <2>2 DEF CardPages
<1> QED BY <1>2, <1>3

LEMMA OpenPage ==
  ASSUME G!SettingsAssumption, SettingsInv, NEW w \in Windows, G!Open(w)
  PROVE  SettingsInv'
<1> DEFINE p == [data  |-> page[w].data,
                 form  |-> IF page[w].data = Null THEN Null ELSE G!Display(page[w].data),
                 dirty |-> FALSE,
                 fetch |-> IF page[w].fetch = Null THEN rowsKept ELSE page[w].fetch]
<1>1. /\ UNCHANGED <<calm, card, rowsKept, log, gReq>> /\ page' = [page EXCEPT ![w] = p]
      /\ calm => NothingRuns
  BY DEF G!Open, G!MayRun, NothingRuns
<1>2. /\ page[w] \in CardPages /\ card \in G!Cards /\ rowsKept \in CardRows /\ rowsKept # Null
      /\ Equipped(w)
  BY RowsNotNull DEF SettingsInv, SettingsTypes, SavesInv
<1>3. page[w].data # Null => /\ G!Display(page[w].data) \in CardRows
                             /\ G!Display(page[w].data) # Null
                             /\ Same(G!Display(page[w].data), page[w].data)
  BY <1>2, DisplayRow, RowsNotNull DEF CardPages
<1>4. /\ p \in CardPages /\ p.data = page[w].data /\ (p.form # Null <=> page[w].form # Null)
      /\ p.form # Null => Same(p.form, p.data)
      /\ page[w].fetch = Null => p.fetch = rowsKept
  BY <1>2, <1>3 DEF CardPages, Equipped
<1> HIDE DEF p
<1>5. OneWindow(w) /\ page'[w] = p /\ gReq'[w] = gReq[w]
  BY <1>1, <1>4, PagePut
<1>6. SettingsTypes' /\ LimitsInv' /\ (calm /\ card = "config" => RecordsInv')
  BY <1>1, <1>5
  DEF SettingsInv, SettingsTypes, CardPages, CardRows, CardRequests, CardSteps, LimitsInv,
      RecordsInv, Recorded, OneWindow
<1>7. SavesInv'
  <2>1. (Equipped(w))'
    BY <1>1, <1>2, <1>4, <1>5 DEF Equipped
  <2> QED BY <1>5, <2>1, SavesEquipped
<1>8. ASSUME calm PROVE AloneInv'
  <2>1. NothingRuns
    BY <1>1, <1>8
  <2>2. \A v \in Windows : gReq'[v] = G!Idle /\ (v # w => page'[v].fetch = Null)
    BY <1>1, <1>5, <2>1 DEF NothingRuns, OneWindow
  <2>3. page'[w].fetch = rowsKept
    BY <1>4, <1>5, <2>1 DEF NothingRuns
  <2> QED BY <1>1, <2>2, <2>3 DEF AloneInv, OnlyFetches, Written, G!Idle
<1>9. ASSUME calm PROVE FormInv'
  <2>1. NothingRuns /\ FormInv
    BY <1>1, <1>9 DEF SettingsInv
  <2>2. (Fits(w))' \/ page'[w].form = Null
    BY <1>1, <1>2, <1>4, <1>5, <2>1 DEF Fits, NothingRuns, Same
  <2>3. ASSUME NEW v \in Windows, v # w, (OnlyForm(v))' PROVE (Fits(v))'
    <3>1. OnlyForm(v)
      BY <1>4, <1>5, <2>3 DEF OnlyForm, OneWindow
    <3>2. Fits(v)
      BY <2>1, <3>1 DEF FormInv
    <3> QED BY <1>1, <1>5, <2>3, <3>2 DEF Fits, OneWindow, Same
  <2> QED BY <2>2, <2>3 DEF FormInv, OnlyForm
<1> QED BY <1>1, <1>6, <1>7, <1>8, <1>9 DEF SettingsInv

LEMMA FetchedPage ==
  ASSUME G!SettingsAssumption, SettingsInv, NEW w \in Windows, G!Fetched(w)
  PROVE  SettingsInv'
<1>1. /\ UNCHANGED <<calm, card, rowsKept, log, gReq>> /\ page[w].fetch # Null
      /\ page' = [page EXCEPT ![w] = [G!Receive(w, page[w].fetch) EXCEPT !.fetch = Null]]
  BY DEF G!Fetched
<1>2. page[w] \in CardPages /\ page[w].fetch \in CardRows /\ Equipped(w)
  BY <1>1 DEF SettingsInv, SettingsTypes, SavesInv, CardPages
<1>3. PICK answer \in CardRows : answer = page[w].fetch
  BY <1>2
<1> DEFINE r == G!Receive(w, answer)
<1> DEFINE p == [r EXCEPT !.fetch = Null]
<1>4. /\ r \in CardPages /\ r.data = answer /\ answer # Null
      /\ page[w].data # answer => ~r.dirty /\ r.form # Null /\ Same(r.form, answer)
      /\ page[w].data = answer => r = page[w]
  BY Received
<1> HIDE DEF r
<1>5. /\ p \in CardPages /\ p.data = answer /\ p.form = r.form /\ p.dirty = r.dirty
      /\ p.fetch = Null
  BY <1>4 DEF CardPages
<1>6. page' = [page EXCEPT ![w] = p]
  BY <1>1, <1>3 DEF r
<1> HIDE DEF p
<1>7. OneWindow(w) /\ page'[w] = p /\ gReq'[w] = gReq[w]
  BY <1>1, <1>5, <1>6, PagePut
<1>8. SettingsTypes' /\ LimitsInv' /\ (calm /\ card = "config" => RecordsInv')
  BY <1>1, <1>7
  DEF SettingsInv, SettingsTypes, CardPages, CardRows, CardRequests, CardSteps, LimitsInv,
      RecordsInv, Recorded, OneWindow
<1>9. p.form # Null
  BY <1>2, <1>4, <1>5 DEF Equipped
<1>10. SavesInv'
  <2>1. (Equipped(w))'
    BY <1>1, <1>2, <1>4, <1>5, <1>7, <1>9 DEF Equipped
  <2> QED BY <1>7, <2>1, SavesEquipped
<1>11. ASSUME calm PROVE AloneInv'
  <2>1. OnlyFetches(w)
    BY <1>1, <1>11 DEF SettingsInv, AloneInv
  <2>2. \A v \in Windows : gReq'[v] = G!Idle /\ page'[v].fetch = Null
    BY <1>1, <1>5, <1>7, <2>1 DEF OnlyFetches, OneWindow
  <2> QED BY <2>2 DEF AloneInv, Written, G!Idle
<1>12. ASSUME calm PROVE FormInv'
  <2>1. answer = rowsKept /\ gReq[w] = G!Idle /\ FormInv
    BY <1>1, <1>3, <1>12 DEF SettingsInv, AloneInv, OnlyFetches
  <2>2. ASSUME (OnlyForm(w))' PROVE (Fits(w))'
    <3>1. CASE page[w].data # answer
      BY <1>1, <1>4, <1>5, <1>7, <2>1, <3>1 DEF Fits, Same
    <3>2. CASE page[w].data = answer
      <4>1. page[w].form # Null
        BY <1>2, <1>4, <3>2 DEF Equipped
      <4>2. Fits(w)
        BY <1>7, <2>1, <2>2, <4>1, OnlyFormWas DEF FormInv
      <4>3. ~page[w].dirty => Same(page[w].form, rowsKept)
        BY <1>1, <2>1, <3>2, <4>2 DEF Fits
      <4> QED BY <1>1, <1>4, <1>5, <1>7, <2>1, <3>2, <4>3 DEF Fits, Same
    <3> QED BY <3>1, <3>2
  <2> QED BY <1>7, <1>9, <2>2, FormAlone
<1> QED BY <1>1, <1>8, <1>10, <1>11, <1>12 DEF SettingsInv


\* A row with one field typed over.
LEMMA FieldTyped ==
  ASSUME G!SettingsAssumption, card = "config", NEW r \in CardRows,
         NEW f \in G!Fields, NEW v \in Typed[f]
  PROVE  [r EXCEPT ![f] = v] \in CardRows
<1>1. r \in [G!Fields -> Int] /\ (\A g \in Rates : RateTyped(g, r[g])) /\ v \in Int
  BY ConfigRows DEF G!SettingsAssumption
<1>2. f \in Rates => RateTyped(f, v)
  BY DEF RateTyped
<1>3. Rates \subseteq G!Fields
  BY DEF G!Fields
<1> DEFINE new == [r EXCEPT ![f] = v]
<1>4. new \in [G!Fields -> Int] /\ \A g \in Rates : RateTyped(g, new[g])
  BY <1>1, <1>2, <1>3
<1> HIDE DEF new
<1>5. new \in CardRows
  BY <1>4, ConfigRows
<1> QED BY <1>5 DEF new

LEMMA DaysTyped ==
  ASSUME G!SettingsAssumption, card \in G!Cards, card # "config", NEW r \in CardRows,
         NEW s \in G!StepSet
  PROVE  /\ \A v \in Int : [r EXCEPT ![s].days = G!Between(1, v, 60)] \in CardRows
         /\ [r EXCEPT ![s].enabled = ~@] \in CardRows
<1>1. r \in [G!StepSet -> [days : 1..60, enabled : BOOLEAN]]
      /\ CardRows = [G!StepSet -> [days : 1..60, enabled : BOOLEAN]]
  BY DayRows
<1>2. \A v \in Int : G!Between(1, v, 60) \in 1..60
  BY DEF G!Between
<1>3. r[s] \in [days : 1..60, enabled : BOOLEAN]
  BY <1>1
<1>4. \A d \in 1..60 : [r[s] EXCEPT !.days = d] \in [days : 1..60, enabled : BOOLEAN]
  BY <1>3
<1>5. [r[s] EXCEPT !.enabled = ~@] \in [days : 1..60, enabled : BOOLEAN]
  BY <1>3
<1>6. \A x \in [days : 1..60, enabled : BOOLEAN] : [r EXCEPT ![s] = x] \in CardRows
  BY <1>1
<1>7. ASSUME NEW v \in Int PROVE [r EXCEPT ![s].days = G!Between(1, v, 60)] \in CardRows
  BY <1>2, <1>4, <1>6
<1>8. [r EXCEPT ![s].enabled = ~@] \in CardRows
  BY <1>5, <1>6
<1> QED BY <1>7, <1>8

LEMMA TypePage ==
  ASSUME G!SettingsAssumption, SettingsInv, NEW w \in Windows, G!Type(w)
  PROVE  SettingsInv'
<1>1. /\ UNCHANGED <<calm, card, rowsKept, log, gReq>> /\ page[w].form # Null
      /\ page[w] \in CardPages /\ card \in G!Cards
  BY DEF G!Type, SettingsInv, SettingsTypes
<1>2. page[w].form \in CardRows /\ page[w].form # Null
  BY <1>1 DEF CardPages
<1>3. PICK form \in CardRows : page' = [page EXCEPT ![w].form = form, ![w].dirty = TRUE]
  <2>1. CASE card = "config"
    <3>1. PICK form \in UNION { { [page[w].form EXCEPT ![f] = v] : v \in Typed[f] } : f \in G!Fields } :
            page' = [page EXCEPT ![w].form = form, ![w].dirty = TRUE]
      BY <2>1 DEF G!Type
    <3>2. PICK f \in G!Fields : form \in { [page[w].form EXCEPT ![f] = v] : v \in Typed[f] }
      OBVIOUS
    <3>3. PICK v \in Typed[f] : form = [page[w].form EXCEPT ![f] = v]
      BY <3>2
    <3>4. form \in CardRows
      BY <1>2, <2>1, <3>3, FieldTyped
    <3> QED BY <3>1, <3>4
  <2>2. CASE card # "config"
    <3> DEFINE Days(s) == { [page[w].form EXCEPT ![s].days = G!Between(1, v, 60)] :
                              v \in IF page[w].form[s].enabled THEN Typed["days"] ELSE {} }
    <3> DEFINE Timers(s) == { [page[w].form EXCEPT ![s].enabled = ~@] }
    <3>1. PICK form \in UNION { Days(s) \union Timers(s) : s \in G!StepSet } :
            page' = [page EXCEPT ![w].form = form, ![w].dirty = TRUE]
      BY <2>2 DEF G!Type
    <3>2. PICK s \in G!StepSet : form \in Days(s) \union Timers(s)
      BY <3>1
    <3>3. Typed["days"] \subseteq Int
      BY DEF G!SettingsAssumption
    <3>4. CASE form \in Days(s)
      <4>1. PICK v \in IF page[w].form[s].enabled THEN Typed["days"] ELSE {} :
              form = [page[w].form EXCEPT ![s].days = G!Between(1, v, 60)]
        BY <3>4
      <4>2. v \in Int
        BY <3>3
      <4>3. form \in CardRows
        BY <1>1, <1>2, <2>2, <4>1, <4>2, DaysTyped
      <4> QED BY <3>1, <4>3
    <3>5. CASE form \in Timers(s)
      <4>1. form \in CardRows
        BY <1>1, <1>2, <2>2, <3>5, DaysTyped
      <4> QED BY <3>1, <4>1
    <3> QED BY <3>2, <3>4, <3>5
  <2> QED BY <2>1, <2>2
<1> DEFINE p == [[page[w] EXCEPT !.form = form] EXCEPT !.dirty = TRUE]
<1>4. /\ p \in CardPages /\ p.data = page[w].data /\ p.fetch = page[w].fetch /\ p.form = form
      /\ p.dirty
  BY <1>1 DEF CardPages
<1>5. form # Null
  BY RowsNotNull
<1>6. page' = [page EXCEPT ![w] = p]
  <2>1. [page EXCEPT ![w].form = form, ![w].dirty = TRUE]
          = [page EXCEPT ![w] = [page[w] EXCEPT !.form = form, !.dirty = TRUE]]
    BY DEF SettingsInv, SettingsTypes
  <2>2. [page[w] EXCEPT !.form = form, !.dirty = TRUE] = p
    BY <1>1 DEF CardPages
  <2> QED BY <1>3, <2>1, <2>2
<1> HIDE DEF p
<1>7. OneWindow(w) /\ page'[w] = p /\ gReq'[w] = gReq[w]
  BY <1>1, <1>4, <1>6, PagePut
<1>8. SettingsTypes' /\ LimitsInv' /\ (calm /\ card = "config" => RecordsInv')
  BY <1>1, <1>7
  DEF SettingsInv, SettingsTypes, CardPages, CardRows, CardRequests, CardSteps, LimitsInv,
      RecordsInv, Recorded, OneWindow
<1>9. SavesInv'
  <2>1. Equipped(w)
    BY DEF SettingsInv, SavesInv
  <2>2. (Equipped(w))'
    BY <1>1, <1>4, <1>5, <1>7, <2>1 DEF Equipped
  <2> QED BY <1>7, <2>2, SavesEquipped
<1>10. ASSUME calm PROVE AloneInv'
  <2>1. \A v \in Windows : page'[v].fetch = page[v].fetch
    BY <1>4, <1>7 DEF OneWindow
  <2> QED BY <1>1, <1>10, <2>1 DEF SettingsInv, AloneInv, OnlySaves, OnlyFetches, Written
<1>11. ASSUME calm PROVE FormInv'
  BY <1>4, <1>5, <1>7, FormAlone DEF Fits
<1> QED BY <1>1, <1>8, <1>9, <1>10, <1>11 DEF SettingsInv

LEMMA SavePage ==
  ASSUME G!SettingsAssumption, SettingsInv, NEW w \in Windows, G!Save(w)
  PROVE  SettingsInv'
<1> DEFINE q == [step |-> "check", sent |-> G!Sent(page[w].form), old |-> Null, new |-> Null,
                 left |-> << >>]
<1> DEFINE p == [page[w] EXCEPT !.dirty = FALSE]
<1>1. /\ UNCHANGED <<calm, card, rowsKept, log>> /\ page[w].form # Null
      /\ page[w] \in CardPages /\ card \in G!Cards /\ Equipped(w)
      /\ G!Goto(w, q) /\ page' = [page EXCEPT ![w] = p]
      /\ calm => NothingRuns
  BY DEF G!Save, G!MayRun, NothingRuns, SettingsInv, SettingsTypes, SavesInv
<1>2. page[w].form \in CardRows
  BY <1>1 DEF CardPages
<1>3. G!Sent(page[w].form) \in CardRows /\ Same(page[w].form, G!Sent(page[w].form))
  BY <1>1, <1>2, SentRow
<1>4. /\ p \in CardPages /\ p.form = page[w].form /\ p.data = page[w].data
      /\ p.fetch = page[w].fetch /\ ~p.dirty
  BY <1>1 DEF CardPages
<1>5. /\ q \in CardRequests /\ q.step = "check" /\ q # G!Idle
      /\ Same(p.form, q.sent)
  BY <1>3, <1>4 DEF CardRequests, CardSteps, G!Idle
<1> HIDE DEF p, q
<1>6. OneWindow(w) /\ page'[w] = p /\ gReq'[w] = q
  BY <1>1, <1>4, <1>5, BothPut
<1>7. SettingsTypes' /\ LimitsInv'
  BY <1>1, <1>6
  DEF SettingsInv, SettingsTypes, CardPages, CardRows, CardRequests, CardSteps, LimitsInv, OneWindow
<1>8. SavesInv'
  <2>1. (Equipped(w))'
    BY <1>1, <1>4, <1>5, <1>6 DEF Equipped
  <2> QED BY <1>6, <2>1, SavesEquipped
<1>9. ASSUME calm PROVE AloneInv'
  <2>1. NothingRuns
    BY <1>1, <1>9
  <2>2. OnlySaves(w) /\ page'[w].fetch = Null
    BY <1>4, <1>6, <2>1 DEF NothingRuns, OnlySaves
  <2>3. (Written(w))'
    BY <1>5, <1>6 DEF Written
  <2> QED BY <1>6, <2>2, <2>3, AloneSaves
<1>10. ASSUME calm PROVE FormInv'
  <2>1. page'[w].fetch = Null
    BY <1>1, <1>4, <1>6, <1>10 DEF NothingRuns
  <2>2. (Fits(w))'
    BY <1>1, <1>5, <1>6, <2>1 DEF Fits, Same
  <2> QED BY <1>1, <1>4, <1>6, <2>2, FormAlone
<1>11. ASSUME calm, card = "config" PROVE RecordsInv'
  <2>1. NothingRuns /\ RecordsInv
    BY <1>1, <1>11 DEF SettingsInv
  <2>2. \A v \in Windows : gReq'[v].step \notin {"upsert", "read", "audit"}
    BY <1>5, <1>6, <2>1 DEF OneWindow, NothingRuns, G!Idle
  <2>3. Recorded = rowsKept
    BY <2>1 DEF RecordsInv, NothingRuns, G!Idle
  <2> QED BY <1>1, <2>1, <2>2, <2>3 DEF RecordsInv, Recorded, CardRows
<1> QED BY <1>1, <1>7, <1>8, <1>9, <1>10, <1>11 DEF SettingsInv


-----------------------------------------------------------------------------
(***************************************************************************)
(* The save.                                                               *)
(***************************************************************************)
\* A step of a save that goes on.
LEMMA GoesOn ==
  ASSUME SettingsInv, NEW w \in Windows, gReq[w].step # "idle",
         NEW q \in CardRequests, G!Goto(w, q), q.sent = gReq[w].sent,
         UNCHANGED <<calm, card, page>>, rowsKept' \in CardRows, LimitsInv', (Equipped(w))',
         calm => (Written(w))', calm /\ card = "config" => RecordsInv'
  PROVE  SettingsInv'
<1>1. OneWindow(w) /\ gReq'[w] = q /\ page'[w] = page[w] /\ q # G!Idle
  BY RequestPut, RequestStep
<1>2. /\ gReq[w] # G!Idle /\ page[w].form # Null
      /\ calm => OnlySaves(w)
  BY Asking
<1>3. SettingsTypes'
  BY <1>1
  DEF SettingsInv, SettingsTypes, CardPages, CardRows, CardRequests, CardSteps, OneWindow
<1>4. SavesInv'
  BY <1>1, SavesEquipped
<1>5. ASSUME calm PROVE AloneInv'
  <2>1. OnlySaves(w) /\ page'[w].fetch = Null
    BY <1>1, <1>2, <1>5 DEF OnlySaves
  <2> QED BY <1>1, <1>5, <2>1, AloneSaves
<1>6. ASSUME calm PROVE FormInv'
  <2>1. FormInv /\ page'[w].fetch = Null
    BY <1>1, <1>2, <1>6 DEF SettingsInv, OnlySaves
  <2>2. ASSUME (OnlyForm(w))' PROVE (Fits(w))'
    <3>1. Fits(w)
      BY <1>1, <1>2, <2>1, <2>2, OnlyFormWas DEF FormInv
    <3> QED BY <1>1, <1>2, <2>1, <3>1 DEF Fits, Same
  <2> QED BY <1>1, <1>2, <2>2, FormAlone
<1> QED BY <1>3, <1>4, <1>5, <1>6 DEF SettingsInv

\* Nobody else is between a read and a record.
LEMMA OtherSteps ==
  ASSUME SettingsInv, calm, NEW w \in Windows, gReq[w].step # "idle", OneWindow(w)
  PROVE  \A v \in Windows : v # w => gReq[v] = G!Idle /\ gReq'[v] = G!Idle
                                     /\ gReq[v].step = "idle" /\ gReq'[v].step = "idle"
<1>1. OnlySaves(w)
  BY Asking
<1> QED BY <1>1 DEF OnlySaves, OneWindow, G!Idle

LEMMA AcceptSave ==
  ASSUME G!SettingsAssumption, SettingsInv, NEW w \in Windows, G!Accept(w)
  PROVE  SettingsInv'
<1>1. /\ UNCHANGED <<calm, card, rowsKept, log, page>> /\ gReq[w].step = "check"
      /\ G!Accepted(gReq[w].sent) /\ rowsKept \in CardRows /\ rowsKept # Null
      /\ card \in G!Cards
  BY RowsNotNull DEF G!Accept, SettingsInv, SettingsTypes
<1>2. /\ gReq[w] \in CardRequests /\ Equipped(w) /\ gReq[w].step # "idle"
      /\ calm => OnlySaves(w)
  BY <1>1, Asking
<1>3. LimitsInv'
  BY <1>1 DEF SettingsInv, LimitsInv
<1>4. CASE card = "config"
  <2> DEFINE q == [[gReq[w] EXCEPT !.step = "upsert"] EXCEPT !.old = rowsKept]
  <2>1. G!Goto(w, [gReq[w] EXCEPT !.step = "upsert", !.old = rowsKept])
    BY <1>4 DEF G!Accept
  <2>2. G!Goto(w, q)
    BY <1>2, <2>1 DEF CardRequests
  <2>3. /\ q \in CardRequests /\ q.step = "upsert" /\ q.sent = gReq[w].sent /\ q.old = rowsKept
    BY <1>1, <1>2, <1>4 DEF CardRequests, CardSteps
  <2> HIDE DEF q
  <2>4. OneWindow(w) /\ gReq'[w] = q
    BY <1>1, <2>2, <2>3, RequestPut
  <2>5. (Equipped(w))'
    <3>1. gReq[w].sent[G!Min] <= gReq[w].sent[G!Max]
      BY <1>1, <1>4 DEF G!Accepted
    <3> QED BY <1>1, <1>2, <2>3, <2>4, <3>1, RequestStep DEF Equipped
  <2>6. (Written(w))'
    BY <2>3, <2>4 DEF Written
  <2>7. ASSUME calm PROVE RecordsInv'
    <3>1. RecordsInv
      BY <1>4, <2>7 DEF SettingsInv
    <3>2. \A v \in Windows : v # w => gReq[v].step = "idle" /\ gReq'[v].step = "idle"
      BY <1>2, <2>4, <2>7, OtherSteps
    <3>3. Recorded = rowsKept
      BY <1>1, <3>1, <3>2 DEF RecordsInv
    <3> QED BY <1>1, <2>3, <2>4, <3>1, <3>2, <3>3 DEF RecordsInv, Recorded, CardRows
  <2> QED BY <1>1, <1>2, <1>3, <2>2, <2>3, <2>5, <2>6, <2>7, GoesOn
<1>5. CASE card # "config"
  <2> DEFINE q == [[gReq[w] EXCEPT !.step = "items"] EXCEPT !.left = Steps]
  <2>1. G!Goto(w, [gReq[w] EXCEPT !.step = "items", !.left = Steps])
    BY <1>5 DEF G!Accept
  <2>2. G!Goto(w, q)
    BY <1>2, <2>1 DEF CardRequests
  <2>3. Steps \in Seq(G!StepSet) /\ Steps # << >>
    BY DEF G!SettingsAssumption
  <2>4. /\ q \in CardRequests /\ q.step = "items" /\ q.sent = gReq[w].sent /\ q.left = Steps
    BY <1>1, <1>2, <1>5, <2>3 DEF CardRequests, CardSteps
  <2> HIDE DEF q
  <2>5. OneWindow(w) /\ gReq'[w] = q
    BY <1>1, <2>2, <2>4, RequestPut
  <2>6. (Equipped(w))'
    BY <1>1, <1>2, <2>3, <2>4, <2>5, RequestStep DEF Equipped
  <2>7. (Written(w))'
    BY <2>4, <2>5 DEF Written, G!StepSet
  <2> QED BY <1>1, <1>2, <1>3, <1>5, <2>2, <2>4, <2>6, <2>7, GoesOn
<1> QED BY <1>4, <1>5

LEMMA UpsertSave ==
  ASSUME SettingsInv, NEW w \in Windows, G!UpsertConfig(w)
  PROVE  SettingsInv'
<1> DEFINE q == [gReq[w] EXCEPT !.step = "read"]
<1>1. /\ UNCHANGED <<calm, card, log, page>> /\ gReq[w].step = "upsert"
      /\ rowsKept' = gReq[w].sent /\ G!Goto(w, q)
  BY DEF G!UpsertConfig
<1>2. gReq[w] \in CardRequests /\ Equipped(w) /\ gReq[w].step # "idle"
  BY <1>1, Asking
<1>3. card = "config" /\ gReq[w].sent \in CardRows /\ "read" \in CardSteps
  BY <1>1, <1>2 DEF CardRequests, CardSteps
<1>4. /\ q \in CardRequests /\ q.step = "read" /\ q.sent = gReq[w].sent /\ q.old = gReq[w].old
      /\ q.new = gReq[w].new
  BY <1>2, <1>3 DEF CardRequests
<1> HIDE DEF q
<1>5. OneWindow(w) /\ gReq'[w] = q
  BY <1>1, <1>4, RequestPut
<1>6. LimitsInv'
  BY <1>1, <1>2 DEF Equipped, LimitsInv
<1>7. (Equipped(w))'
  BY <1>1, <1>2, <1>4, <1>5, RequestStep DEF Equipped
<1>8. (Written(w))'
  BY <1>1, <1>4, <1>5 DEF Written
<1>9. ASSUME calm PROVE RecordsInv'
  <2>1. RecordsInv
    BY <1>3, <1>9 DEF SettingsInv
  <2>2. \A v \in Windows : v # w => gReq'[v].step = "idle"
    BY <1>2, <1>5, <1>9, OtherSteps
  <2> QED BY <1>1, <1>4, <1>5, <2>1, <2>2 DEF RecordsInv, Recorded, CardRows
<1>10. rowsKept' \in CardRows
  BY <1>1, <1>3
<1> QED BY <1>1, <1>2, <1>4, <1>6, <1>7, <1>8, <1>9, <1>10, GoesOn

LEMMA UpsertStepSave ==
  ASSUME SettingsInv, NEW w \in Windows, G!UpsertStep(w)
  PROVE  SettingsInv'
<1> DEFINE s == Head(gReq[w].left)
<1> DEFINE rest == Tail(gReq[w].left)
<1> DEFINE step == IF rest = << >> THEN "read" ELSE "items"
<1> DEFINE q == [[gReq[w] EXCEPT !.left = rest] EXCEPT !.step = step]
<1>1. /\ UNCHANGED <<calm, card, log, page>> /\ gReq[w].step = "items"
      /\ rowsKept' = [rowsKept EXCEPT ![s] = gReq[w].sent[s]]
      /\ G!Goto(w, [gReq[w] EXCEPT !.left = rest, !.step = step])
  BY DEF G!UpsertStep
<1>2. gReq[w] \in CardRequests /\ Equipped(w) /\ gReq[w].step # "idle"
  BY <1>1, Asking
<1>3. /\ card # "config" /\ gReq[w].left \in Seq(G!StepSet) /\ gReq[w].left # << >>
      /\ step \in CardSteps /\ step \in {"read", "items"}
  BY <1>1, <1>2 DEF CardRequests, CardSteps, Equipped
<1>4. /\ gReq[w].sent \in [G!StepSet -> [days : 1..60, enabled : BOOLEAN]]
      /\ rowsKept \in [G!StepSet -> [days : 1..60, enabled : BOOLEAN]]
      /\ CardRows = [G!StepSet -> [days : 1..60, enabled : BOOLEAN]]
  BY <1>2, <1>3, DayRows DEF CardRequests, SettingsInv, SettingsTypes
<1>5. s \in G!StepSet /\ rest \in Seq(G!StepSet)
      /\ \A i \in 1..Len(gReq[w].left) :
           gReq[w].left[i] = s \/ \E j \in 1..Len(rest) : rest[j] = gReq[w].left[i]
  <2>1. gReq[w].left[1] = s /\ s \in G!StepSet /\ rest \in Seq(G!StepSet)
    BY <1>3
  <2>2. ASSUME NEW i \in 1..Len(gReq[w].left), i # 1
        PROVE  i - 1 \in 1..Len(rest) /\ rest[i - 1] = gReq[w].left[i]
    BY <1>3, <2>2
  <2> QED BY <2>1, <2>2
<1>6. G!Goto(w, q)
  BY <1>1, <1>2 DEF CardRequests
<1>7. q \in CardRequests /\ q.step = step /\ q.sent = gReq[w].sent /\ q.left = rest
  BY <1>2, <1>3, <1>5 DEF CardRequests
<1> HIDE DEF q
<1>8. OneWindow(w) /\ gReq'[w] = q
  BY <1>1, <1>6, <1>7, RequestPut
<1>9. rowsKept' \in CardRows /\ LimitsInv'
  BY <1>1, <1>3, <1>4, <1>5 DEF LimitsInv
<1>10. (Equipped(w))'
  BY <1>1, <1>2, <1>3, <1>7, <1>8, RequestStep DEF Equipped
<1>11. ASSUME calm PROVE (Written(w))'
  <2>1. Written(w)
    BY <1>2, <1>11, Asking
  <2>2. ASSUME NEW t \in G!StepSet
        PROVE  rowsKept'[t] = gReq[w].sent[t] \/ \E j \in 1..Len(rest) : rest[j] = t
    <3>1. CASE t = s
      BY <1>1, <1>4, <3>1
    <3>2. CASE t # s
      BY <1>1, <1>4, <1>5, <2>1, <3>2 DEF Written
    <3> QED BY <3>1, <3>2
  <2>3. step = "read" => rowsKept' = gReq[w].sent
    <3>1. ASSUME step = "read", NEW t \in G!StepSet PROVE rowsKept'[t] = gReq[w].sent[t]
      <4>1. rest = << >>
        BY <3>1
      <4>2. ~\E j \in 1..Len(rest) : rest[j] = t
        <5> HIDE DEF rest, step, s
        <5> QED BY <4>1
      <4> QED BY <2>2, <4>2
    <3> QED BY <1>4, <1>9, <3>1
  <2> HIDE DEF step, rest, s
  <2> QED BY <1>3, <1>7, <1>8, <2>2, <2>3 DEF Written
<1> QED BY <1>1, <1>2, <1>3, <1>6, <1>7, <1>9, <1>10, <1>11, GoesOn


LEMMA ReadSave ==
  ASSUME G!SettingsAssumption, SettingsInv, NEW w \in Windows, G!ReadBack(w)
  PROVE  SettingsInv'
<1> DEFINE step == IF card = "config" THEN "audit" ELSE "answer"
<1> DEFINE q == [[gReq[w] EXCEPT !.step = step] EXCEPT !.new = rowsKept]
<1>1. /\ UNCHANGED <<calm, card, rowsKept, log, page>> /\ gReq[w].step = "read"
      /\ G!Goto(w, [gReq[w] EXCEPT !.step = step, !.new = rowsKept])
      /\ rowsKept \in CardRows /\ rowsKept # Null /\ card \in G!Cards
  BY RowsNotNull DEF G!ReadBack, SettingsInv, SettingsTypes
<1>2. gReq[w] \in CardRequests /\ Equipped(w) /\ gReq[w].step # "idle"
  BY <1>1, Asking
<1>3. step \in CardSteps /\ (step = "audit" <=> card = "config") /\ step \in {"audit", "answer"}
  BY DEF CardSteps
<1>4. G!Goto(w, q)
  BY <1>1, <1>2 DEF CardRequests
<1>5. /\ q \in CardRequests /\ q.step = step /\ q.sent = gReq[w].sent /\ q.old = gReq[w].old
      /\ q.new = rowsKept
  BY <1>1, <1>2, <1>3 DEF CardRequests
<1> HIDE DEF q, step
<1>6. OneWindow(w) /\ gReq'[w] = q
  BY <1>1, <1>4, <1>5, RequestPut
<1>7. LimitsInv'
  BY <1>1 DEF SettingsInv, LimitsInv
<1>8. (Equipped(w))'
  BY <1>1, <1>2, <1>3, <1>5, <1>6, RequestStep DEF Equipped
<1>9. ASSUME calm PROVE (Written(w))'
  <2>1. Written(w)
    BY <1>2, <1>9, Asking
  <2> QED BY <1>1, <1>3, <1>5, <1>6, <2>1 DEF Written
<1>10. ASSUME calm, card = "config" PROVE RecordsInv'
  <2>1. RecordsInv /\ step = "audit"
    BY <1>3, <1>10 DEF SettingsInv
  <2>2. \A v \in Windows : v # w => gReq'[v].step = "idle"
    BY <1>2, <1>6, <1>10, OtherSteps
  <2> QED BY <1>1, <1>5, <1>6, <2>1, <2>2 DEF RecordsInv, Recorded, CardRows
<1> QED BY <1>1, <1>2, <1>4, <1>5, <1>7, <1>8, <1>9, <1>10, GoesOn

\* The records after one more.
LEMMA OneMoreRecord ==
  ASSUME G!SettingsAssumption, RecordsInv, card = "config",
         NEW old \in CardRows, NEW new \in CardRows, old = Recorded,
         NEW r, r = [oldValue |-> old, newValue |-> new], log' = Append(log, r)
  PROVE  /\ log' \in Seq([oldValue : CardRows, newValue : CardRows])
         /\ \A i \in 2..Len(log') : log'[i].oldValue = log'[i - 1].newValue
         /\ log'[1].oldValue = Start["config"] /\ log' # << >>
         /\ Recorded' = new
<1>1. log \in Seq([oldValue : CardRows, newValue : CardRows])
      /\ r \in [oldValue : CardRows, newValue : CardRows] /\ r.oldValue = old /\ r.newValue = new
  BY DEF RecordsInv
<1>2. /\ log' \in Seq([oldValue : CardRows, newValue : CardRows]) /\ log' # << >>
      /\ Len(log') = Len(log) + 1 /\ Len(log) \in Nat /\ log'[Len(log) + 1] = r
      /\ \A i \in 1..Len(log) : log'[i] = log[i]
  BY <1>1
<1>3. ASSUME NEW i \in 2..Len(log') PROVE log'[i].oldValue = log'[i - 1].newValue
  <2>1. CASE i \in 2..Len(log)
    <3>1. i \in 1..Len(log) /\ i - 1 \in 1..Len(log)
      BY <1>2, <2>1
    <3> QED BY <1>2, <2>1, <3>1 DEF RecordsInv
  <2>2. CASE i = Len(log) + 1
    <3>1. Len(log) \in 1..Len(log) /\ i - 1 = Len(log) /\ log # << >>
      BY <1>1, <1>2, <2>2
    <3>2. Recorded = log[Len(log)].newValue
      BY <3>1 DEF Recorded
    <3> QED BY <1>1, <1>2, <2>2, <3>1, <3>2
  <2> QED BY <1>2, <1>3, <2>1, <2>2
<1>4. log'[1].oldValue = Start["config"]
  <2>1. CASE log = << >>
    BY <1>1, <1>2, <2>1 DEF Recorded
  <2>2. CASE log # << >>
    <3>1. 1 \in 1..Len(log)
      BY <1>1, <2>2
    <3> QED BY <1>2, <2>2, <3>1 DEF RecordsInv
  <2> QED BY <2>1, <2>2
<1>5. Recorded' = new
  BY <1>1, <1>2 DEF Recorded
<1> QED BY <1>2, <1>3, <1>4, <1>5

LEMMA RecordSave ==
  ASSUME G!SettingsAssumption, SettingsInv, NEW w \in Windows, G!Record(w)
  PROVE  SettingsInv'
<1> DEFINE q == [gReq[w] EXCEPT !.step = "answer"]
<1>1. /\ UNCHANGED <<calm, card, rowsKept, page>> /\ gReq[w].step = "audit"
      /\ G!Goto(w, q) /\ rowsKept \in CardRows
      /\ log' = Append(log, G!Entry(gReq[w])) \/ ~calm
  BY DEF G!Record, SettingsInv, SettingsTypes
<1>2. gReq[w] \in CardRequests /\ Equipped(w) /\ gReq[w].step # "idle"
  BY <1>1, Asking
<1>3. card = "config" /\ "answer" \in CardSteps
  BY <1>1, <1>2 DEF CardRequests, CardSteps
<1>4. /\ q \in CardRequests /\ q.step = "answer" /\ q.sent = gReq[w].sent /\ q.new = gReq[w].new
  BY <1>2, <1>3 DEF CardRequests
<1> HIDE DEF q
<1>5. OneWindow(w) /\ gReq'[w] = q
  BY <1>1, <1>4, RequestPut
<1>6. LimitsInv'
  BY <1>1 DEF SettingsInv, LimitsInv
<1>7. (Equipped(w))'
  BY <1>1, <1>2, <1>3, <1>4, <1>5, RequestStep DEF Equipped
<1>8. ASSUME calm PROVE (Written(w))'
  <2>1. Written(w)
    BY <1>2, <1>8, Asking
  <2> QED BY <1>1, <1>4, <1>5, <2>1 DEF Written
<1>9. ASSUME calm PROVE RecordsInv'
  <2>1. RecordsInv /\ Written(w) /\ log' = Append(log, G!Entry(gReq[w]))
    BY <1>1, <1>2, <1>3, <1>9, Asking DEF SettingsInv
  <2>2. gReq[w].old = Recorded /\ gReq[w].new = rowsKept
    BY <1>1, <2>1 DEF RecordsInv, Written
  <2>3. gReq[w].old \in CardRows
    BY <1>1, <1>2, <1>3 DEF CardRequests, Equipped
  <2>4. /\ log' \in Seq([oldValue : CardRows, newValue : CardRows])
        /\ \A i \in 2..Len(log') : log'[i].oldValue = log'[i - 1].newValue
        /\ log'[1].oldValue = Start["config"] /\ Recorded' = rowsKept
    <3>1. G!Entry(gReq[w]) = [oldValue |-> gReq[w].old, newValue |-> rowsKept]
      BY <2>2 DEF G!Entry
    <3>2. PICK old \in CardRows, new \in CardRows : old = gReq[w].old /\ new = rowsKept
      BY <1>1, <2>3
    <3>3. PICK r : r = [oldValue |-> old, newValue |-> new]
      OBVIOUS
    <3> QED BY <1>3, <2>1, <2>2, <3>1, <3>2, <3>3, OneMoreRecord
  <2>5. \A v \in Windows : v # w => gReq'[v].step = "idle"
    BY <1>2, <1>5, <1>9, OtherSteps
  <2>6. \A v \in Windows : gReq'[v].step \notin {"upsert", "read", "audit"}
    BY <1>4, <1>5, <2>5
  <2>7. CardRows' = CardRows
    BY <1>1 DEF CardRows
  <2> QED BY <1>1, <2>4, <2>6, <2>7 DEF RecordsInv
<1> QED BY <1>1, <1>2, <1>4, <1>6, <1>7, <1>8, <1>9, GoesOn

\* A save that ends.
LEMMA SaveEnds ==
  ASSUME SettingsInv, NEW w \in Windows, gReq[w].step # "idle", G!Goto(w, G!Idle),
         NEW p \in CardPages, page' = [page EXCEPT ![w] = p],
         UNCHANGED <<calm, card, rowsKept, log>>,
         p.form # Null /\ p.data # Null /\ p.fetch = page[w].fetch,
         calm => gReq[w].step \notin {"read", "audit"},
         calm /\ OnlyForm(w) /\ ~p.dirty => Same(p.form, rowsKept)
  PROVE  SettingsInv'
<1>a. OneWindow(w) /\ gReq'[w] = G!Idle /\ page'[w] = p
  <2>1. G!Idle \in CardRequests \union {G!Idle}
    OBVIOUS
  <2> QED  BY <2>1, BothPut
<1>b. G!Idle.step = "idle"
  BY DEF G!Idle
<1>1. OneWindow(w) /\ gReq'[w] = G!Idle /\ page'[w] = p /\ gReq'[w].step = "idle"
  BY <1>a, <1>b
<1>2. /\ gReq[w] # G!Idle /\ page[w].form # Null
      /\ calm => OnlySaves(w)
  BY Asking
<1>3. SettingsTypes' /\ LimitsInv'
  BY <1>1
  DEF SettingsInv, SettingsTypes, CardPages, CardRows, CardRequests, CardSteps, LimitsInv, OneWindow
<1>4. SavesInv'
  <2>1. (Equipped(w))'
    BY <1>1 DEF Equipped
  <2> QED BY <1>1, <2>1, SavesEquipped
<1>5. ASSUME calm PROVE AloneInv'
  <2>1. OnlySaves(w) /\ page'[w].fetch = Null
    BY <1>1, <1>2, <1>5 DEF OnlySaves
  <2>2. (Written(w))'
    BY <1>1 DEF Written
  <2> QED BY <1>1, <2>1, <2>2, AloneSaves
<1>6. ASSUME calm PROVE FormInv'
  <2>1. page'[w].fetch = Null
    BY <1>1, <1>2, <1>6 DEF OnlySaves
  <2>2. ASSUME (OnlyForm(w))' PROVE (Fits(w))'
    <3>1. OnlyForm(w)
      BY <1>1, <1>2, <2>2, OnlyFormWas
    <3> QED BY <1>1, <1>6, <2>1, <3>1 DEF Fits, Same
  <2> QED BY <1>1, <2>2, FormAlone
<1>7. ASSUME calm, card = "config" PROVE RecordsInv'
  <2>1. RecordsInv
    BY <1>7 DEF SettingsInv
  <2>2. \A v \in Windows : v # w => gReq[v].step = "idle" /\ gReq'[v].step = "idle"
    BY <1>1, <1>7, OtherSteps
  <2>3. Recorded = rowsKept
    BY <1>7, <2>1, <2>2 DEF RecordsInv
  <2> QED BY <1>1, <2>1, <2>2, <2>3 DEF RecordsInv, Recorded, CardRows
<1> QED BY <1>3, <1>4, <1>5, <1>6, <1>7 DEF SettingsInv

LEMMA SavedSave ==
  ASSUME G!SettingsAssumption, SettingsInv, NEW w \in Windows, G!Saved(w)
  PROVE  SettingsInv'
<1>1. /\ UNCHANGED <<calm, card, rowsKept, log>> /\ gReq[w].step = "answer"
      /\ G!Goto(w, G!Idle) /\ page' = [page EXCEPT ![w] = G!Receive(w, gReq[w].new)]
  BY DEF G!Saved
<1>2. /\ gReq[w] \in CardRequests /\ gReq[w] # G!Idle /\ Equipped(w) /\ gReq[w].step # "idle"
      /\ calm => OnlySaves(w) /\ Written(w)
  BY <1>1, Asking
<1>3. PICK answer \in CardRows : answer = gReq[w].new
  BY <1>1, <1>2 DEF Equipped, CardRequests
<1> DEFINE p == G!Receive(w, answer)
<1>4. /\ p \in CardPages /\ p.fetch = page[w].fetch /\ p.data = answer /\ answer # Null
      /\ page[w].data # answer => ~p.dirty /\ p.form # Null /\ Same(p.form, answer)
      /\ page[w].data = answer => p = page[w]
  BY Received
<1>5. page' = [page EXCEPT ![w] = p]
  BY <1>1, <1>3
<1> HIDE DEF p
<1>6. p.form # Null
  BY <1>2, <1>4 DEF Equipped
<1>7. ASSUME calm, OnlyForm(w), ~p.dirty PROVE Same(p.form, rowsKept)
  <2>1. answer = rowsKept /\ gReq[w].sent = rowsKept
    BY <1>1, <1>2, <1>3, <1>7 DEF Written
  <2>2. Fits(w)
    BY <1>7 DEF SettingsInv, FormInv
  <2> QED BY <1>2, <1>4, <1>7, <2>1, <2>2 DEF Fits
<1> QED BY <1>1, <1>2, <1>4, <1>5, <1>6, <1>7, SaveEnds

LEMMA FailedSave ==
  ASSUME SettingsInv, NEW w \in Windows, G!Failed(w)
  PROVE  SettingsInv'
<1> DEFINE p == [page[w] EXCEPT !.dirty = TRUE]
<1>1. /\ UNCHANGED <<calm, card, rowsKept, log>> /\ gReq[w] # G!Idle
      /\ G!Goto(w, G!Idle) /\ page' = [page EXCEPT ![w].dirty = TRUE]
      /\ calm => gReq[w].step \notin {"read", "audit"}
  BY DEF G!Failed
<1>2. gReq[w].step # "idle"
  BY <1>1, RequestStep DEF SettingsInv, SettingsTypes
<1>3. page[w] \in CardPages /\ Equipped(w) /\ page[w].form # Null
  BY <1>2, Asking
<1>4. /\ p \in CardPages /\ p.form = page[w].form /\ p.data = page[w].data
      /\ p.fetch = page[w].fetch /\ p.dirty
  BY <1>3 DEF CardPages
<1>5. page' = [page EXCEPT ![w] = p]
  BY <1>1
<1> HIDE DEF p
<1>6. p.data # Null
  BY <1>3, <1>4 DEF Equipped
<1> QED BY <1>1, <1>2, <1>3, <1>4, <1>5, <1>6, SaveEnds

-----------------------------------------------------------------------------
LEMMA InitSettings ==
  ASSUME G!SettingsAssumption, G!Init
  PROVE  SettingsInv
<1>1. /\ calm \in BOOLEAN /\ card \in G!Cards /\ rowsKept = Start[card] /\ log = << >>
      /\ \A w \in Windows : /\ page[w] = [data |-> Null, form |-> Null, dirty |-> FALSE,
                                          fetch |-> Null]
                            /\ gReq[w] = G!Idle
      /\ page \in [Windows -> CardPages] /\ gReq \in [Windows -> CardRequests \union {G!Idle}]
  BY DEF G!Init, CardPages
<1>2. rowsKept \in CardRows
  <2>1. CASE card = "config"
    <3>1. Start["config"] \in [G!Fields -> Int]
      BY DEF G!SettingsAssumption, G!ConfigRow
    <3>2. \A f \in Rates : RateTyped(f, Start["config"][f])
      BY DEF RateTyped
    <3> QED BY <1>1, <2>1, <3>1, <3>2, ConfigRows
  <2>2. CASE card # "config"
    BY <1>1, <2>2 DEF G!Cards, CardRows, G!SettingsAssumption
  <2> QED BY <2>1, <2>2
<1>3. \A w \in Windows : gReq[w].step = "idle" /\ page[w].fetch = Null /\ page[w].form = Null
                         /\ page[w].data = Null
  BY <1>1 DEF G!Idle
<1>4. SettingsTypes /\ SavesInv
  BY <1>1, <1>2, <1>3 DEF SettingsTypes, SavesInv, Equipped
<1>5. LimitsInv
  BY <1>1 DEF LimitsInv, G!SettingsAssumption
<1>6. AloneInv /\ FormInv
  BY <1>1, <1>3 DEF AloneInv, Written, FormInv, OnlyForm
<1>7. card = "config" => RecordsInv
  BY <1>1, <1>3 DEF RecordsInv, Recorded
<1> QED BY <1>4, <1>5, <1>6, <1>7 DEF SettingsInv

LEMMA NextSettings ==
  ASSUME G!SettingsAssumption, SettingsInv, [G!Next]_gVars, calm' = calm
  PROVE  SettingsInv'
<1>1. ASSUME NEW w \in Windows, G!Open(w) \/ G!Fetched(w) \/ G!Type(w) \/ G!Save(w)
      PROVE  SettingsInv'
  BY <1>1, OpenPage, FetchedPage, TypePage, SavePage
<1>2. ASSUME NEW w \in Windows,
             G!Accept(w) \/ G!UpsertConfig(w) \/ G!UpsertStep(w) \/ G!ReadBack(w) \/ G!Record(w)
      PROVE  SettingsInv'
  BY <1>2, AcceptSave, UpsertSave, UpsertStepSave, ReadSave, RecordSave
<1>3. ASSUME NEW w \in Windows, G!Saved(w) \/ G!Failed(w) PROVE SettingsInv'
  BY <1>3, SavedSave, FailedSave
<1>4. CASE UNCHANGED gVars
  <2>1. UNCHANGED <<calm, card, rowsKept, log, page, gReq>>
    BY <1>4 DEF gVars
  <2>2. SettingsTypes' /\ LimitsInv' /\ SavesInv'
    BY <2>1
    DEF SettingsInv, SettingsTypes, CardPages, CardRows, CardRequests, CardSteps, LimitsInv,
        SavesInv, Equipped
  <2>3. calm => AloneInv' /\ FormInv'
    BY <2>1
    DEF SettingsInv, AloneInv, OnlySaves, OnlyFetches, Written, FormInv, OnlyForm, Fits, Same
  <2>4. calm /\ card = "config" => RecordsInv'
    BY <2>1 DEF SettingsInv, RecordsInv, Recorded, CardRows
  <2> QED BY <2>1, <2>2, <2>3, <2>4 DEF SettingsInv
<1> QED BY <1>1, <1>2, <1>3, <1>4 DEF G!Next

\* The parts of the administrator, as they run.
AdminInv == (part = "staff" => StaffInv) /\ (part = "settings" => SettingsInv)

\* The inductive invariant: forms, saves and dialogs are about one account that exists,
\* and every copy of the settings, in a form, a request or an answer, was stored or typed
\* (UsersPage.tsx, SettingsPage.tsx, updateConfig).
THEOREM AdminInductive ==
  ASSUME P!StaffAssumption, G!SettingsAssumption
  PROVE  OfficeSpec => []AdminInv
<1>1. OfficeInit => AdminInv
  BY InitStaff, InitSettings DEF OfficeInit, AdminInv
<1>2. AdminInv /\ [OfficeNext]_officeVars => AdminInv'
  <2> SUFFICES ASSUME AdminInv, [OfficeNext]_officeVars
               PROVE  /\ part' = "staff" => StaffInv'
                      /\ part' = "settings" => SettingsInv'
    BY DEF AdminInv
  <2>1. ASSUME part' = "staff" PROVE StaffInv'
    <3>1. part = "staff" /\ ([P!Next]_pVars)
      BY <2>1 DEF OfficeNext, officeVars
    <3> QED BY <3>1, NextStaff DEF AdminInv
  <2>2. ASSUME part' = "settings" PROVE SettingsInv'
    <3>1. part = "settings" /\ ([G!Next]_gVars)
      BY <2>2 DEF OfficeNext, officeVars
    <3>2. calm' = calm
      BY <2>2, <3>1 DEF OfficeNext, officeVars, G!Next, G!Open, G!Fetched, G!Type, G!Save, G!Accept,
         G!UpsertConfig, G!UpsertStep, G!ReadBack, G!Record, G!Saved, G!Failed, uVars, vars
    <3> QED BY <3>1, <3>2, NextSettings DEF AdminInv
  <2> QED BY <2>1, <2>2
<1> QED BY <1>1, <1>2, PTL DEF OfficeSpec

\* For any accounts, branches, windows and numbers of forms and saves: no form is stored
\* with another account, operators alone have a branch, no rate is stored that nobody
\* typed, and while requests run one at a time the records lead to what is stored, which
\* is what the only card in use shows.
THEOREM AdminPagesAreSound ==
  ASSUME P!StaffAssumption, G!SettingsAssumption
  PROVE  OfficeSpec => []AdminPagesSound
<1>1. AdminInv => AdminPagesSound
  <2>1. ASSUME StaffInv PROVE P!FormsStayApart /\ P!OperatorsHaveBranch
    BY <2>1 DEF StaffInv
  <2>2. ASSUME SettingsInv PROVE G!RatesAreTyped
    <3> SUFFICES ASSUME card = "config" PROVE G!RatesAreTyped
      BY DEF G!RatesAreTyped
    <3>1. \A f \in Rates : RateTyped(f, rowsKept[f])
      BY <2>2, ConfigRows DEF SettingsInv, SettingsTypes
    <3>2. rowsKept[G!Min] <= rowsKept[G!Max]
      BY <2>2 DEF SettingsInv, LimitsInv
    <3> QED BY <3>1, <3>2 DEF G!RatesAreTyped, RateTyped, Round
  <2>3. ASSUME SettingsInv PROVE G!RecordsLeadHere
    <3> SUFFICES ASSUME card = "config", calm, \A w \in Windows : gReq[w] = G!Idle
                 PROVE  G!RecordsLeadHere
      BY DEF G!RecordsLeadHere
    <3>1. RecordsInv /\ Recorded = rowsKept
      BY <2>3 DEF SettingsInv, RecordsInv, G!Idle
    <3> QED BY <3>1 DEF G!RecordsLeadHere, RecordsInv, Recorded
  <2>4. ASSUME SettingsInv PROVE G!ShownIsStored
    <3> SUFFICES ASSUME calm, \A w \in Windows : gReq[w] = G!Idle /\ page[w].fetch = Null,
                        NEW w \in Windows, ~page[w].dirty, page[w].form # Null,
                        \A v \in Windows \ {w} : page[v].form = Null
                 PROVE  \/ card = "days" /\ page[w].form = rowsKept
                        \/ card = "config"
                             /\ \A f \in Rates : G!Shown(page[w].form)[f] = G!Shown(rowsKept)[f]
      BY DEF G!ShownIsStored
    <3>1. Same(page[w].form, rowsKept) /\ card \in {"days", "config"}
      BY <2>4 DEF SettingsInv, SettingsTypes, G!Cards, FormInv, OnlyForm, Fits
    <3>2. Rates \subseteq G!Fields
      BY DEF G!Fields
    <3> QED BY <3>1, <3>2 DEF Same, G!Shown, Round
  <2> QED BY <2>1, <2>2, <2>3, <2>4 DEF AdminInv, AdminPagesSound
<1> QED BY <1>1, AdminInductive, PTL

-----------------------------------------------------------------------------
(***************************************************************************)
(* Numbers and lists.  The two where clauses compared: no invariant, it    *)
(* holds of any rows and whoever looks.                                    *)
(***************************************************************************)
\* Without a filter nothing bounds the time, and nobody looks into one branch.
LEMMA AskedForAll ==
  /\ N!ComputeRange(N!NoFilter).from = Null /\ N!ComputeRange(N!NoFilter).to = Null
  /\ N!NoFilter.branch = Null /\ N!NoFilter.region = Null
BY DEF N!ComputeRange, N!NoFilter

\* For any staff, branches, regions and cases, whatever the filters: whoever looks counts the
\* cases of their own scope and no others, and counts each case they list (scopeFor, list).
THEOREM NumbersAreOwn == OfficeSpec => [](part = "lists" => N!NumbersOfOwnScope)
<1>1. N!NumbersOfOwnScope
  <2>1. ASSUME NEW c \in Cases, N!Listed(c) PROVE c \in N!Counted(N!NoFilter)
    BY <2>1, AskedForAll DEF N!Listed, N!Counted, N!Drilled
  <2>2. ASSUME NEW h, NEW k, NEW c \in N!Counted([N!NoFilter EXCEPT !.branch = h, !.region = k])
        PROVE  c \in N!Counted(N!NoFilter)
    <3>1. c \in Cases /\ ~rows[c].archived /\ N!Drilled(c, [N!NoFilter EXCEPT !.branch = h, !.region = k])
      BY <2>2 DEF N!Counted
    <3>2. N!Drilled(c, N!NoFilter)
      BY <3>1, AskedForAll DEF N!Drilled, N!CanDrill
    <3> QED BY <3>1, <3>2, AskedForAll DEF N!Counted
  <2> QED BY <2>1, <2>2 DEF N!NumbersOfOwnScope
<1> QED BY <1>1, PTL
====
