---------------------------- MODULE Conversations ----------------------------
(***************************************************************************)
(* Messages between colleagues (apps/backend/src/messages/                 *)
(* messages.module.ts): case chats, direct messages and the Saved thread,  *)
(* and the chat windows that poll them (packages/ui/src/components/        *)
(* CaseChat.tsx, pages/ChatsPage.tsx).                                     *)
(*                                                                         *)
(* A row carries its readers as one text column.  Opening a thread reads   *)
(* the rows, then writes back for each unread one the list it read with    *)
(* the viewer added: of two viewers the later write wins.  edit and delete *)
(* test the list of an earlier read.  A browser tab sends one request at a *)
(* time; attachments are in Documents.                                     *)
(***************************************************************************)
EXTENDS Workflow, FiniteSets, Naturals

CONSTANTS
  Tabs,        \* browser tabs, each with a chat window open
  Users,       \* accounts
  UserOf,      \* UserOf[t]: who is logged in to tab t
  RoleOf,      \* RoleOf[u]: the role in u's account
  MessageIds,  \* ids of message rows
  Limit,       \* bound: Limit[alone] messages are ever sent, copies included
  Addresses,   \* bound: what messages are addressed to
  LastText,    \* bound: versions of a text
  NoMessage,   \* a message not sent yet
  Deleted,     \* a message removed from the table
  Nobody,      \* toUserId is null
  NoRole       \* toRole is null

ASSUME ConversationsAssumption ==
  /\ UserOf \in [Tabs -> Users]
  /\ RoleOf \in [Users -> Roles]
  /\ LastText \in Nat \ {0}
  /\ Limit \in [BOOLEAN -> 0..Cardinality(MessageIds)]
  /\ Addresses \subseteq [inCase : BOOLEAN, toUser : Users \union {Nobody},
                          toRole : Roles \union {NoRole}]
  /\ Nobody \notin Users /\ NoRole \notin Roles

VARIABLES
  alone,    \* handlers run one at a time (chosen once, never changed)
  message,  \* message[m]: the columns of row m
  req,      \* req[t]: what the request of tab t keeps between two awaits
  shown     \* history: what opening a thread has shown to others than the sender

vars == <<alone, message, req, shown>>

Texts == 1..LastText

\* inCase tells a case chat (caseId set) from direct and saved messages.
Rows == [inCase : BOOLEAN, sender : Users, toUser : Users \union {Nobody},
         toRole : Roles \union {NoRole}, text : Texts, readBy : SUBSET Users]

\* A message that is not there is told from one that is.
ASSUME SentinelsAssumption == NoMessage # Deleted /\ NoMessage \notin Rows /\ Deleted \notin Rows

Views == [user : Users, id : MessageIds, text : Texts]

Idle == [step |-> "idle"]

Live == {m \in MessageIds : message[m] \notin {NoMessage, Deleted}}

\* A handler may take its next step: always, or only when no other one runs.
MayRun(t) == alone => \A s \in Tabs \ {t} : req[s] = Idle

Init ==
  /\ alone \in BOOLEAN
  /\ message = [m \in MessageIds |-> NoMessage]
  /\ req = [t \in Tabs |-> Idle]
  /\ shown = {}

-----------------------------------------------------------------------------
(***************************************************************************)
(* What a query returns.                                                   *)
(***************************************************************************)

\* Mutant of VisibleTo: the role branch forgets that toUserId must be null.
VisibleToRole(u, row) ==
  \/ row.sender = u
  \/ row.toUser = u
  \/ row.toUser = Nobody /\ row.toRole = NoRole
  \/ row.toRole = RoleOf[u]

VisibleTo(u, row) ==
  \/ row.sender = u
  \/ row.toUser = u
  \/ row.toUser = Nobody /\ row.toRole \in {NoRole, RoleOf[u]}

CaseThread(u) == {m \in Live : message[m].inCase /\ VisibleTo(u, message[m])}

DmThread(u, other) ==
  {m \in Live : /\ ~message[m].inCase
                /\ <<message[m].sender, message[m].toUser>> \in {<<u, other>>, <<other, u>>}}

\* savedWhere: the messages of the thread with oneself.
SavedThread(u) == DmThread(u, u)

ReadBy(u, m) == u \in message[m].readBy

\* GET messages/feed: case messages of others.
Feed(u) == {m \in CaseThread(u) : message[m].sender # u}

\* GET messages/unread, the badge of the sidebar.
Unread(u) ==
  {m \in Live : message[m].sender # u /\ VisibleTo(u, message[m]) /\ ~ReadBy(u, m)}

\* Mutant of Inbox: only peers the user has written to.
InboxWritten(u) ==
  [dms |-> {message[m].toUser : m \in {n \in Live : /\ ~message[n].inCase
                                                   /\ message[n].sender = u}} \ {u},
   case |-> CaseThread(u) # {}]

\* GET conversations: the peers with a direct thread, and whether the case has one.
Inbox(u) ==
  LET flat == {m \in Live : ~message[m].inCase /\ u \in {message[m].sender, message[m].toUser}}
      peer(m) == IF message[m].sender = u THEN message[m].toUser ELSE message[m].sender
  IN  [dms |-> {peer(m) : m \in flat} \ {u}, case |-> CaseThread(u) # {}]

\* The text the inbox prints under a thread is that of one of its messages.
InboxTexts(u) == CaseThread(u) \union UNION {DmThread(u, v) : v \in Inbox(u).dms}

-----------------------------------------------------------------------------
Goto(t, state) == req' = [req EXCEPT ![t] = state]

Begin(t, state) == req[t] = Idle /\ MayRun(t) /\ Goto(t, state)

End(t) == Goto(t, Idle)

\* The bound on messages, copies in flight included.
HasFreeId ==
  Cardinality({m \in MessageIds : message[m] # NoMessage})
    + Cardinality({t \in Tabs : req[t].step = "save"}) < Limit[alone]

\* send, dmSend, savedSend: one insert; the sender counts as a reader.
Create(m, u, inCase, toUser, toRole, text) ==
  message' = [message EXCEPT ![m] =
    [inCase |-> inCase, sender |-> u, toUser |-> toUser, toRole |-> toRole,
     text |-> text, readBy |-> {u}]]

\* A case message may name a role, a user, both or neither; a direct one a user.
Send(t, to) ==
  /\ req[t] = Idle /\ MayRun(t)
  /\ HasFreeId
  /\ ~to.inCase => to.toUser # Nobody /\ to.toRole = NoRole
  /\ \E m \in MessageIds :
       /\ message[m] = NoMessage
       /\ Create(m, UserOf[t], to.inCase, to.toUser, to.toRole, 1)
  /\ UNCHANGED <<alone, req, shown>>

-----------------------------------------------------------------------------
(***************************************************************************)
(* Opening a thread (list for a case, hydrate for the others): the rows    *)
(* are read, the unread ones are updated all at once in any order, and the *)
(* page is sent when all updates have succeeded.                           *)
(***************************************************************************)
Page(u, thread) ==
  {[user |-> u, id |-> m, text |-> message[m].text] :
     m \in {n \in thread : message[n].sender # u}}

ToMark(u, thread) == {m \in thread : message[m].sender # u /\ ~ReadBy(u, m)}

ReadThread(t, thread) ==
  LET u == UserOf[t] IN
  IF ToMark(u, thread) = {}
  THEN /\ req[t] = Idle /\ MayRun(t)
       /\ shown' = shown \union Page(u, thread)
       /\ UNCHANGED <<alone, message, req>>
  ELSE /\ Begin(t, [step |-> "mark", ok |-> TRUE, page |-> Page(u, thread),
                    stale |-> [m \in ToMark(u, thread) |-> message[m].readBy]])
       /\ UNCHANGED <<alone, message, shown>>

OpenCase(t) == ReadThread(t, CaseThread(UserOf[t]))

OpenDm(t, other) == ReadThread(t, DmThread(UserOf[t], other))

OpenSaved(t) == ReadThread(t, SavedThread(UserOf[t]))

\* Mutant of Readers: the viewer replaces the readers before.
ReadersReplaced(stale, u) == {u}

\* [...(m.readBy ?? '').split(','), user.id]
Readers(stale, u) == stale \union {u}

\* One update of the Promise.all; it throws if the row is gone.
MarkRead(t, m) ==
  /\ req[t].step = "mark"
  /\ m \in DOMAIN req[t].stale
  /\ LET rest == DOMAIN req[t].stale \ {m}
     IN  Goto(t, [step |-> "mark", ok |-> req[t].ok /\ m \in Live, page |-> req[t].page,
                  stale |-> [n \in rest |-> req[t].stale[n]]])
  /\ message' = IF m \in Live
                THEN [message EXCEPT ![m].readBy = Readers(req[t].stale[m], UserOf[t])]
                ELSE message
  /\ UNCHANGED <<alone, shown>>

SendPage(t) ==
  /\ req[t].step = "mark"
  /\ DOMAIN req[t].stale = {}
  /\ shown' = IF req[t].ok THEN shown \union req[t].page ELSE shown
  /\ End(t)
  /\ UNCHANGED <<alone, message>>

-----------------------------------------------------------------------------
\* Mutant of OwnUnread: the readers are not looked at.
OwnUnreadAny(u, m) == m \in Live /\ message[m].inCase /\ message[m].sender = u

\* ownUnreadMessage: the sender's own case message, read by nobody else.
OwnUnread(u, m) ==
  /\ m \in Live
  /\ message[m].inCase
  /\ message[m].sender = u
  /\ message[m].readBy \subseteq {u}

CheckEdit(t, m) ==
  /\ OwnUnread(UserOf[t], m)
  /\ message[m].text < LastText
  /\ Begin(t, [step |-> "edit", id |-> m, text |-> message[m].text + 1])
  /\ UNCHANGED <<alone, message, shown>>

\* update; it throws if the row is gone.
WriteEdit(t) ==
  /\ req[t].step = "edit"
  /\ message' = IF req[t].id \in Live
                THEN [message EXCEPT ![req[t].id].text = req[t].text] ELSE message
  /\ End(t)
  /\ UNCHANGED <<alone, shown>>

CheckRemove(t, m) ==
  /\ OwnUnread(UserOf[t], m)
  /\ Begin(t, [step |-> "remove", id |-> m])
  /\ UNCHANGED <<alone, message, shown>>

WriteRemove(t) ==
  /\ req[t].step = "remove"
  /\ message' = [message EXCEPT ![req[t].id] = Deleted]
  /\ End(t)
  /\ UNCHANGED <<alone, shown>>

\* saveToSaved: the source is read and checked, its text copied by an insert.
MaySave(u, row) ==
  \/ row.sender = u
  \/ row.toUser = u
  \/ row.toUser = Nobody /\ (row.toRole = NoRole \/ row.toRole = RoleOf[u])

CheckSave(t, m) ==
  /\ m \in Live
  /\ HasFreeId
  /\ MaySave(UserOf[t], message[m])
  /\ Begin(t, [step |-> "save", source |-> m, text |-> message[m].text])
  /\ UNCHANGED <<alone, message, shown>>

WriteSave(t) ==
  /\ req[t].step = "save"
  /\ \E m \in MessageIds :
       /\ message[m] = NoMessage
       /\ Create(m, UserOf[t], FALSE, UserOf[t], NoRole, req[t].text)
  /\ End(t)
  /\ UNCHANGED <<alone, shown>>

\* The process dies or the database refuses: what was written stays.
AbortRequest(t) ==
  /\ req[t] # Idle
  /\ End(t)
  /\ UNCHANGED <<alone, message, shown>>

-----------------------------------------------------------------------------
Receive(t) ==
  \/ \E to \in Addresses : Send(t, to)
  \/ OpenCase(t)
  \/ OpenSaved(t)
  \/ \E other \in Users \ {UserOf[t]} : OpenDm(t, other)
  \/ \E m \in MessageIds : CheckEdit(t, m) \/ CheckRemove(t, m) \/ CheckSave(t, m)

Advance(t) ==
  \/ \E m \in MessageIds : MarkRead(t, m)
  \/ SendPage(t)
  \/ WriteEdit(t)
  \/ WriteRemove(t)
  \/ WriteSave(t)

Next == \E t \in Tabs : Receive(t) \/ Advance(t) \/ AbortRequest(t)

Spec == Init /\ [][Next]_vars

(***************************************************************************)
(* The case chat polls every eight seconds (refetchInterval), and what the *)
(* server received it works on.  A poll waits while the tab's last request *)
(* runs, and some but not all of them may die: both are strong.            *)
(***************************************************************************)
Fairness ==
  \A t \in Tabs :
    /\ SF_vars(OpenCase(t))
    /\ SF_vars(\E m \in MessageIds : MarkRead(t, m))
    /\ WF_vars(SendPage(t) \/ WriteEdit(t) \/ WriteRemove(t) \/ WriteSave(t))

FairSpec == Spec /\ Fairness

-----------------------------------------------------------------------------
(***************************************************************************)
(* Properties.                                                             *)
(***************************************************************************)

TypeOK ==
  /\ alone \in BOOLEAN
  /\ message \in [MessageIds -> Rows \union {NoMessage, Deleted}]
  /\ \A t \in Tabs : req[t].step \in {"idle", "mark", "edit", "remove", "save"}
  /\ shown \subseteq Views

\* The comment on visibleTo: a message directed to a user or a role stays with
\* its sender and those it names.
PartyTo(u, row) ==
  \/ u = row.sender
  \/ row.toUser # Nobody /\ u = row.toUser
  \/ row.toUser = Nobody /\ row.toRole # NoRole /\ RoleOf[u] = row.toRole
  \/ row.toUser = Nobody /\ row.toRole = NoRole

\* Whatever path a text takes (a thread, the feed, the inbox, the badge, a copy
\* to Saved, the list of readers), it reaches parties of the message only.
PartiesOnly ==
  /\ \A u \in Users : \A m \in Feed(u) \union InboxTexts(u) \union Unread(u) :
       PartyTo(u, message[m])
  /\ \A v \in shown : v.id \in Live => PartyTo(v.user, message[v.id])
  /\ \A m \in Live : \A u \in message[m].readBy : PartyTo(u, message[m])
  /\ \A t \in Tabs : req[t].step = "save" /\ req[t].source \in Live
                       => PartyTo(UserOf[t], message[req[t].source])

\* What the unread badge counts can be found: each such message is in the case
\* thread or in a direct thread that the inbox lists.
UnreadReachable ==
  \A u \in Users : \A m \in Unread(u) :
    \/ m \in CaseThread(u) /\ Inbox(u).case
    \/ \E v \in Inbox(u).dms : m \in DmThread(u, v)

\* A message somebody has read is neither changed nor removed ("Xabar allaqachon
\* o'qilgan"), as long as handlers run one at a time.
SeenStaysTrue ==
  alone => \A v \in shown : v.id \in Live /\ message[v.id].text = v.text

\* Who is shown what: the three of them in one formula, for every path a text takes
\* (visibleTo, conversations, ownUnreadMessage).
WhatIsSeen == PartiesOnly /\ UnreadReachable /\ SeenStaysTrue

\* Readers that a race of two viewers drops from the list come back: the chats
\* poll, and in the end every message lists all its parties as readers.
ReadersRecorded ==
  <>[](\A m \in MessageIds, u \in Users :
         m \in CaseThread(u) => ReadBy(u, m))
=============================================================================
