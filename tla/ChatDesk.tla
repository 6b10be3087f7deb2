------------------------------- MODULE ChatDesk -------------------------------
(***************************************************************************)
(* The chats page of one user (ChatsPage.tsx with NewDm and SimpleThread,  *)
(* CaseChat.tsx): the list of conversations, the one that is open, what is *)
(* typed, attached, edited and deleted in it, and what of that the server  *)
(* (Conversations.tla) stores.  Only the user's own messages are here; the *)
(* others read them, which ends their being editable.                      *)
(*                                                                         *)
(* A word is a number, the place it was typed at is typed[word].           *)
(***************************************************************************)
EXTENDS Naturals, Sequences, FiniteSets

CONSTANTS
  CaseThreads,  \* chats of cases
  Peers,        \* direct messages, by the other user
  Saved,        \* messages to oneself
  Addressees,   \* whom a message in a case can be directed to: "all" and others
  MaxTyped,     \* bound: texts and files that are typed or picked
  MaxCalls,     \* bound: requests the page sends
  NoThread

Threads == CaseThreads \union Peers \union {Saved}

ChatAssumption ==
  /\ NoThread \notin Threads /\ "all" \in Addressees
  /\ Saved \notin CaseThreads \union Peers /\ CaseThreads \intersect Peers = {}
  /\ MaxTyped \in Nat /\ MaxCalls \in Nat

VARIABLES
  list,      \* the conversations: "loading", "failed" or "loaded"
  param,     \* ?case= of the address, NoThread without it
  active,    \* the conversation chosen, NoThread where none is
  box,       \* state of the thread that is open: composer, editor, dialog
  feed,      \* own messages in its copy: listed, and those that can be changed
  messages,  \* own messages on the server
  read,      \* those somebody has read
  calls,     \* requests on their way
  typed,     \* history: where each word was typed
  sent, lost \* history: calls made; whether an answer was ever lost

vars == <<list, param, active, box, feed, messages, read, calls, typed, sent, lost>>

server == <<messages, read>>
place == <<list, param, active>>

Empty == [text |-> 0, files |-> {}, to |-> "all", editing |-> 0, edit |-> 0, deleting |-> 0]

NoFeed == [listed |-> {}, editable |-> {}]

Init ==
  /\ list = "loading"
  /\ param \in CaseThreads \union {NoThread} /\ active = param
  /\ box = Empty /\ feed = NoFeed
  /\ messages = <<>> /\ read = {} /\ calls = {}
  /\ typed = <<>> /\ sent = 0 /\ lost = FALSE

-----------------------------------------------------------------------------
(***************************************************************************)
(* Which conversation is open.                                             *)
(***************************************************************************)
\* Saved messages are always the first of the list.
Selected == IF active = NoThread /\ list = "loaded" THEN Saved ELSE active

Open == list # "loading" /\ Selected # NoThread

InCase == Open /\ Selected \in CaseThreads

\* The requests of a thread that is left answer to nobody.
Left == {[q EXCEPT !.mine = FALSE] : q \in calls}

Component(t) == IF t \in CaseThreads THEN "CaseChat" ELSE "SimpleThread"

\* Mutant of Remount: a thread is not keyed by its conversation.
RemountUnkeyed ==
  /\ feed' = IF Selected' = Selected THEN feed ELSE NoFeed
  /\ IF Component(Selected') = Component(Selected)
     THEN UNCHANGED <<box, calls>>
     ELSE box' = Empty /\ calls' = Left

\* Threads are keyed by their conversation: another one begins anew.
Remount ==
  /\ feed' = IF Selected' = Selected THEN feed ELSE NoFeed
  /\ IF Selected' = Selected
     THEN UNCHANGED <<box, calls>>
     ELSE box' = Empty /\ calls' = Left

ListAnswered ==
  /\ list # "loaded" /\ list' \in {"failed", "loaded"}
  /\ UNCHANGED <<param, active>> /\ Remount
  /\ UNCHANGED <<server, typed, sent, lost>>

Show(t) ==
  /\ active' = t /\ UNCHANGED <<list, param>> /\ Remount
  /\ UNCHANGED <<server, typed, sent, lost>>

Choose(t) == list = "loaded" /\ Show(t)

\* "Yangi": a colleague of the directory, in the list or not.
PickColleague(t) == list # "loading" /\ t \in Peers /\ Show(t)

\* The address changes while the page is shown: the effect follows it.
FollowLink(t) ==
  /\ t # param
  /\ param' = t /\ active' = t /\ UNCHANGED list /\ Remount
  /\ UNCHANGED <<server, typed, sent, lost>>

\* The page is left and opened again from another one.
ComeBack(t) ==
  /\ param' = t /\ active' = t /\ UNCHANGED list
  /\ box' = Empty /\ calls' = Left /\ feed' = NoFeed
  /\ UNCHANGED <<server, typed, sent, lost>>

-----------------------------------------------------------------------------
(***************************************************************************)
(* The composer.                                                           *)
(***************************************************************************)
Word(of) == Len(typed) < MaxTyped /\ typed' = Append(typed, [in |-> Selected, of |-> of])

TypeText ==
  /\ Open /\ Word(0)
  /\ box' = [box EXCEPT !.text = Len(typed')]
  /\ UNCHANGED <<place, feed, server, calls, sent, lost>>

\* Three files at most.
PickFile ==
  /\ Open /\ Cardinality(box.files) < 3 /\ Word(0)
  /\ box' = [box EXCEPT !.files = @ \union {Len(typed')}]
  /\ UNCHANGED <<place, feed, server, calls, sent, lost>>

DropFile ==
  /\ Open
  /\ \E f \in box.files : box' = [box EXCEPT !.files = @ \ {f}]
  /\ UNCHANGED <<place, feed, server, calls, typed, sent, lost>>

Address(to) ==
  /\ InCase /\ to # box.to
  /\ box' = [box EXCEPT !.to = to]
  /\ UNCHANGED <<place, feed, server, calls, typed, sent, lost>>

Written == box.text # 0 \/ box.files # {}

Pending(op) == \E q \in calls : q.op = op /\ q.mine

Call(op, id, text) ==
  /\ sent < MaxCalls /\ sent' = sent + 1
  /\ calls' = calls \union {[op |-> op, thread |-> Selected, id |-> id, text |-> text,
                             files |-> IF op = "send" THEN box.files ELSE {},
                             to |-> IF op = "send" THEN box.to ELSE "all", mine |-> TRUE,
                             no |-> sent']}

\* Mutant of CanSend: the button does not wait for the answer.
CanSendAgain == Written

CanSend == Written /\ ~Pending("send")

SendInCase ==
  /\ InCase /\ CanSend
  /\ Call("send", 0, box.text)
  /\ UNCHANGED <<place, box, feed, server, typed, lost>>

\* The field is cleared before the request is made; nobody waits for it.
SendSimple ==
  /\ Open /\ ~InCase /\ Written
  /\ Call("send", 0, box.text)
  /\ box' = [box EXCEPT !.text = 0, !.files = {}]
  /\ UNCHANGED <<place, feed, server, typed, lost>>

\* "Saqlanganlarga": a direct message is copied to oneself.
SaveMessage(m) ==
  /\ Open /\ Selected \in Peers /\ m \in feed.listed
  /\ Call("save", m, messages[m].text)
  /\ UNCHANGED <<place, box, feed, server, typed, lost>>

-----------------------------------------------------------------------------
(***************************************************************************)
(* The editor and the deletion of a message in a case.                     *)
(***************************************************************************)
StartEdit(m) ==
  /\ InCase /\ m \in feed.editable
  /\ box' = [box EXCEPT !.editing = m, !.edit = messages[m].text]
  /\ UNCHANGED <<place, feed, server, calls, typed, sent, lost>>

Editing == InCase /\ box.editing \in feed.listed

TypeEdit ==
  /\ Editing /\ Word(box.editing)
  /\ box' = [box EXCEPT !.edit = Len(typed')]
  /\ UNCHANGED <<place, feed, server, calls, sent, lost>>

CancelEdit ==
  /\ Editing
  /\ box' = [box EXCEPT !.editing = 0]
  /\ UNCHANGED <<place, feed, server, calls, typed, sent, lost>>

\* Enter does not wait for an earlier edit, the button does.
SaveEdit ==
  /\ Editing /\ box.edit # 0
  /\ Call("edit", box.editing, box.edit)
  /\ UNCHANGED <<place, box, feed, server, typed, lost>>

AskDelete(m) ==
  /\ InCase /\ m \in feed.editable
  /\ box' = [box EXCEPT !.deleting = m]
  /\ UNCHANGED <<place, feed, server, calls, typed, sent, lost>>

CloseDialog ==
  /\ InCase /\ box.deleting # 0
  /\ box' = [box EXCEPT !.deleting = 0]
  /\ UNCHANGED <<place, feed, server, calls, typed, sent, lost>>

ConfirmDelete ==
  /\ InCase /\ box.deleting # 0 /\ ~Pending("delete")
  /\ Call("delete", box.deleting, 0)
  /\ UNCHANGED <<place, box, feed, server, typed, lost>>

-----------------------------------------------------------------------------
(***************************************************************************)
(* The server, one step each (Conversations.tla takes them apart), and the *)
(* others.                                                                 *)
(***************************************************************************)
Alive == {m \in DOMAIN messages : messages[m].alive}

Message(thread, text, files, to, copy) ==
  [thread |-> thread, text |-> text, files |-> files, to |-> to, copy |-> copy, alive |-> TRUE]

Changeable(q) == q.id \in Alive /\ q.id \notin read

Accepted(q) ==
  CASE q.op = "send" -> messages' = Append(messages, Message(q.thread, q.text, q.files, q.to, FALSE))
    [] q.op = "save" -> /\ q.id \in Alive
                        /\ messages' = Append(messages, Message(Saved, q.text, {}, "all", TRUE))
    [] q.op = "edit" -> Changeable(q) /\ messages' = [messages EXCEPT ![q.id].text = q.text]
    [] q.op = "delete" -> Changeable(q) /\ messages' = [messages EXCEPT ![q.id].alive = FALSE]

\* onSuccess clears the composer, and closes the editor or the dialog, whatever is in
\* them by now.
AfterSuccess(q) ==
  box' = IF ~q.mine \/ q.op = "save" THEN box
         ELSE CASE q.op = "send" -> IF q.thread \in CaseThreads
                                    THEN [box EXCEPT !.text = 0, !.files = {}] ELSE box
                [] q.op = "edit" -> [box EXCEPT !.editing = 0, !.edit = 0]
                [] q.op = "delete" -> [box EXCEPT !.deleting = 0]

\* onError says so; only the dialog is closed.
AfterError(q) ==
  box' = IF q.mine /\ q.op = "delete" THEN [box EXCEPT !.deleting = 0] ELSE box

Serve(q) ==
  /\ q \in calls /\ calls' = calls \ {q}
  /\ \/ Accepted(q) /\ AfterSuccess(q) /\ UNCHANGED lost
     \/ Accepted(q) /\ AfterError(q) /\ lost' = TRUE
     \/ AfterError(q) /\ UNCHANGED <<messages, lost>>
  /\ UNCHANGED <<place, feed, read, typed, sent>>

\* The thread is fetched every eight seconds and after every change.
Poll ==
  /\ Open
  /\ LET mine == {m \in Alive : messages[m].thread = Selected}
     IN  feed' = [listed |-> mine, editable |-> mine \ read]
  /\ UNCHANGED <<place, box, server, calls, typed, sent, lost>>

\* Another participant opens the chat.
ReadElsewhere(m) ==
  /\ m \in Alive \ read /\ messages[m].thread # Saved
  /\ read' = read \union {m}
  /\ UNCHANGED <<place, box, feed, messages, calls, typed, sent, lost>>

-----------------------------------------------------------------------------
Next ==
  \/ ListAnswered \/ Poll
  \/ TypeText \/ PickFile \/ DropFile \/ SendInCase \/ SendSimple
  \/ TypeEdit \/ CancelEdit \/ SaveEdit \/ CloseDialog \/ ConfirmDelete
  \/ \E t \in Threads : Choose(t) \/ PickColleague(t)
  \/ \E t \in CaseThreads \union {NoThread} : FollowLink(t) \/ ComeBack(t)
  \/ \E to \in Addressees : Address(to)
  \/ \E m \in DOMAIN messages : StartEdit(m) \/ AskDelete(m) \/ SaveMessage(m) \/ ReadElsewhere(m)
  \/ \E q \in calls : Serve(q)

Spec == Init /\ [][Next]_vars

-----------------------------------------------------------------------------
Originals == {m \in DOMAIN messages : ~messages[m].copy}

WordsOf(m) == ({messages[m].text} \ {0}) \union messages[m].files

(***************************************************************************)
(* What was typed or picked in a conversation, or over one of its          *)
(* messages, is stored there and nowhere else, however fast the user turns *)
(* to another one and whatever is answered late; and it is stored once,    *)
(* unless the answer to it was lost (the keys of CaseChat and              *)
(* SimpleThread, canSend).                                                 *)
(***************************************************************************)
WordsStayInPlace ==
  /\ \A m \in Originals : \A w \in WordsOf(m) :
       typed[w].in = messages[m].thread /\ typed[w].of \in {0, m}
  /\ lost \/ \A m, n \in Originals : m # n => WordsOf(m) \intersect WordsOf(n) = {}
=============================================================================
