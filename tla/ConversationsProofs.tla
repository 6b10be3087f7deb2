------------------------- MODULE ConversationsProofs -------------------------
(***************************************************************************)
(* Proofs about Conversations, for any users, roles, tabs, messages and     *)
(* texts: what is shown to whom, and that what was seen stays as it was     *)
(* where handlers run one at a time.                                       *)
(***************************************************************************)
EXTENDS Conversations, TLAPS

-----------------------------------------------------------------------------
(***************************************************************************)
(* The inductive invariant.  The columns that say whose a message is never *)
(* change and an id is never used twice; so what a request read of them    *)
(* before an await is still so after it.                                   *)
(***************************************************************************)
Marks ==
  [step : {"mark"}, ok : BOOLEAN, page : SUBSET Views,
   stale : UNION {[S -> SUBSET Users] : S \in SUBSET MessageIds}]

RequestStates ==
  {Idle} \union Marks
  \union [step : {"edit"}, id : MessageIds, text : Texts]
  \union [step : {"remove"}, id : MessageIds]
  \union [step : {"save"}, source : MessageIds, text : Texts]

Typed ==
  /\ alone \in BOOLEAN
  /\ message \in [MessageIds -> Rows \union {NoMessage, Deleted}]
  /\ req \in [Tabs -> RequestStates]
  /\ shown \subseteq Views

\* A message that was sent, and is one of u's as long as it is there.
MaySee(u, m) == message[m] # NoMessage /\ (m \in Live => PartyTo(u, message[m]))

\* A direct message names its addressee and no role.
DirectNamesUser ==
  \A m \in Live : ~message[m].inCase => message[m].toUser # Nobody /\ message[m].toRole = NoRole

ReadersAreParties ==
  /\ \A m \in Live : \A u \in message[m].readBy : PartyTo(u, message[m])
  /\ \A v \in shown : MaySee(v.user, v.id)

\* What a request has read is the requester's, and so is what it writes back.
RequestOfParty(t) ==
  /\ req[t].step = "mark" =>
       /\ \A v \in req[t].page : MaySee(v.user, v.id)
       /\ \A n \in DOMAIN req[t].stale :
            MaySee(UserOf[t], n) /\ \A u \in req[t].stale[n] : MaySee(u, n)
  /\ req[t].step = "save" => MaySee(UserOf[t], req[t].source)

\* What v was shown is still there.
Held(v) ==
  /\ v.id \in Live
  /\ message[v.id].text = v.text
  /\ message[v.id].sender # v.user

\* Where no other handler runs: the page is as it was read, and its reader is on the
\* list of each message or about to be; a message to change has been seen by nobody.
RequestFresh(t) ==
  /\ req[t].step = "mark" =>
       /\ \A v \in req[t].page :
            /\ Held(v) /\ v.user = UserOf[t]
            /\ v.id \in DOMAIN req[t].stale \/ ReadBy(v.user, v.id)
       /\ \A n \in DOMAIN req[t].stale : n \in Live /\ req[t].stale[n] = message[n].readBy
  /\ req[t].step \in {"edit", "remove"} =>
       /\ req[t].id \in Live
       /\ message[req[t].id].sender = UserOf[t]
       /\ message[req[t].id].readBy \subseteq {UserOf[t]}

OneRuns == \A s, t \in Tabs : s # t => req[s] = Idle \/ req[t] = Idle

ShownHeld == \A v \in shown : Held(v) /\ ReadBy(v.user, v.id)

ConversationsInv ==
  /\ Typed
  /\ DirectNamesUser /\ ReadersAreParties
  /\ \A t \in Tabs : RequestOfParty(t)
  /\ alone => OneRuns /\ ShownHeld /\ \A t \in Tabs : RequestFresh(t)

-----------------------------------------------------------------------------
(***************************************************************************)
(* What a step leaves as it was.                                           *)
(***************************************************************************)
\* No message is unsent, and what is left of one still has the same parties.
KeepsColumns ==
  \A m \in MessageIds : message[m] # NoMessage =>
    /\ message'[m] # NoMessage
    /\ m \in Live' =>
         /\ m \in Live
         /\ message'[m].sender = message[m].sender /\ message'[m].toUser = message[m].toUser
         /\ message'[m].toRole = message[m].toRole /\ message'[m].inCase = message[m].inCase

LEMMA MaySeeStays ==
  ASSUME KeepsColumns, NEW u, NEW m \in MessageIds, MaySee(u, m)
  PROVE  MaySee(u, m)'
  BY DEF KeepsColumns, MaySee, PartyTo

\* The other requests stay as they are, and so does what they know.
LEMMA StepKeeps ==
  ASSUME ConversationsInv, NEW t \in Tabs,
         Typed', KeepsColumns, alone' = alone,
         \A s \in Tabs \ {t} : req'[s] = req[s],
         alone => \A s \in Tabs \ {t} : req[s] = Idle,
         DirectNamesUser', ReadersAreParties', RequestOfParty(t)',
         alone => ShownHeld' /\ RequestFresh(t)'
  PROVE  ConversationsInv'
<1>1. ASSUME NEW s \in Tabs PROVE RequestOfParty(s)'
  <2>1. CASE s = t
    BY <2>1
  <2>2. CASE s # t
    <3>1. req'[s] = req[s] /\ RequestOfParty(s)
      BY <2>2 DEF ConversationsInv
    <3>2. req[s] \in RequestStates
      BY DEF ConversationsInv, Typed
    <3>3. CASE req[s].step = "mark"
      <4>1. req[s].page \subseteq Views /\ DOMAIN req[s].stale \subseteq MessageIds
        BY <3>2, <3>3 DEF RequestStates, Marks, Idle
      <4>2. \A v \in req[s].page : MaySee(v.user, v.id)'
        BY <3>1, <3>3, <4>1, MaySeeStays DEF RequestOfParty, Views
      <4>3. \A n \in DOMAIN req[s].stale :
              MaySee(UserOf[s], n)' /\ \A u \in req[s].stale[n] : MaySee(u, n)'
        BY <3>1, <3>3, <4>1, MaySeeStays DEF RequestOfParty
      <4> QED
        BY <3>1, <3>3, <4>2, <4>3 DEF RequestOfParty
    <3>4. CASE req[s].step = "save"
      <4>1. req[s].source \in MessageIds
        BY <3>2, <3>4 DEF RequestStates, Marks, Idle
      <4> QED
        BY <3>1, <3>4, <4>1, MaySeeStays DEF RequestOfParty
    <3> QED
      BY <3>1, <3>3, <3>4 DEF RequestOfParty
  <2> QED
    BY <2>1, <2>2
<1>2. ASSUME alone PROVE OneRuns' /\ \A s \in Tabs : RequestFresh(s)'
  <2>1. \A s \in Tabs \ {t} : req'[s] = Idle
    BY <1>2
  <2>2. ASSUME NEW s \in Tabs \ {t} PROVE RequestFresh(s)'
    BY <2>1 DEF RequestFresh, Idle
  <2> QED
    BY <1>2, <2>1, <2>2 DEF OneRuns
<1> QED
  BY <1>1, <1>2 DEF ConversationsInv
LEMMA OthersIdle ==
  ASSUME ConversationsInv, NEW t \in Tabs, req[t] = Idle => MayRun(t)
  PROVE  alone => \A s \in Tabs \ {t} : req[s] = Idle
  BY DEF ConversationsInv, OneRuns, MayRun

-----------------------------------------------------------------------------
(***************************************************************************)
(* Who is a party.                                                         *)
(***************************************************************************)
LEMMA VisibleIsParty ==
  ASSUME NEW u \in Users, NEW row \in Rows, VisibleTo(u, row) \/ MaySave(u, row)
  PROVE  PartyTo(u, row)
  BY ConversationsAssumption DEF VisibleTo, MaySave, PartyTo, Rows

LEMMA ThreadsOfParties ==
  ASSUME Typed, NEW u \in Users, NEW v,
         NEW m \in CaseThread(u) \union DmThread(u, v)
  PROVE  m \in Live /\ PartyTo(u, message[m])
<1>1. m \in Live /\ message[m] \in Rows
  BY DEF CaseThread, DmThread, Live, Typed
<1>2. CASE m \in CaseThread(u)
  BY <1>1, <1>2, VisibleIsParty DEF CaseThread
<1>3. CASE m \in DmThread(u, v)
  BY <1>1, <1>3, ConversationsAssumption DEF DmThread, PartyTo
<1> QED
  BY <1>1, <1>2, <1>3

-----------------------------------------------------------------------------
(***************************************************************************)
(* The steps.                                                              *)
(***************************************************************************)
LEMMA SendKeeps ==
  ASSUME ConversationsInv, NEW t \in Tabs, NEW to \in Addresses, Send(t, to)
  PROVE  ConversationsInv'
<1>1. PICK m \in MessageIds :
        /\ message[m] = NoMessage
        /\ Create(m, UserOf[t], to.inCase, to.toUser, to.toRole, 1)
  BY DEF Send
<1>2. /\ req[t] = Idle /\ MayRun(t)
      /\ ~to.inCase => to.toUser # Nobody /\ to.toRole = NoRole
      /\ UNCHANGED <<alone, req, shown>>
  BY DEF Send
<1> DEFINE row == [inCase |-> to.inCase, sender |-> UserOf[t], toUser |-> to.toUser,
                   toRole |-> to.toRole, text |-> 1, readBy |-> {UserOf[t]}]
<1>3. row \in Rows
  BY ConversationsAssumption DEF Rows, Texts
<1>4. message' = [message EXCEPT ![m] = row]
  BY <1>1 DEF Create
<1>5. /\ row.sender = UserOf[t] /\ row.toUser = to.toUser /\ row.toRole = to.toRole
      /\ row.inCase = to.inCase /\ row.readBy = {UserOf[t]}
  OBVIOUS
<1> HIDE DEF row
<1>6. Typed'
  BY <1>2, <1>3, <1>4 DEF ConversationsInv, Typed
<1>7. message'[m] = row /\ \A n \in MessageIds \ {m} : message'[n] = message[n]
  BY <1>4 DEF ConversationsInv, Typed
<1>8. /\ \A n \in Live' \ {m} : n \in Live /\ message'[n] = message[n]
      /\ m \notin Live /\ \A n \in Live : n # m /\ n \in Live' /\ message'[n] = message[n]
  BY <1>1, <1>7 DEF Live
<1>9. KeepsColumns
  BY <1>1, <1>7, <1>8 DEF KeepsColumns
<1>10. DirectNamesUser'
  BY <1>2, <1>5, <1>7, <1>8 DEF ConversationsInv, DirectNamesUser
<1>11. ReadersAreParties'
  <2>1. PartyTo(UserOf[t], row)
    BY <1>5 DEF PartyTo
  <2>2. ASSUME NEW n \in Live', NEW u \in message'[n].readBy PROVE PartyTo(u, message'[n])
    BY <2>1, <2>2, <1>5, <1>7, <1>8 DEF ConversationsInv, ReadersAreParties
  <2>3. ASSUME NEW v \in shown' PROVE MaySee(v.user, v.id)'
    BY <1>2, <1>9, MaySeeStays DEF ConversationsInv, ReadersAreParties, Typed, Views
  <2> QED
    BY <2>2, <2>3 DEF ReadersAreParties, PartyTo
<1>12. RequestOfParty(t)'
  BY <1>2 DEF RequestOfParty, Idle
<1>13. ASSUME alone PROVE ShownHeld' /\ RequestFresh(t)'
  <2>1. ShownHeld'
    BY <1>2, <1>8, <1>13 DEF ConversationsInv, ShownHeld, Held, ReadBy
  <2> QED
    BY <2>1, <1>2 DEF RequestFresh, Idle
<1> QED
  BY <1>2, <1>6, <1>9, <1>10, <1>11, <1>12, <1>13, OthersIdle, StepKeeps

\* Whatever thread is opened, if the requester is a party of its messages.
LEMMA ReadKeeps ==
  ASSUME ConversationsInv, NEW t \in Tabs, NEW thread \in SUBSET Live,
         \A m \in thread : PartyTo(UserOf[t], message[m]),
         ReadThread(t, thread)
  PROVE  ConversationsInv'
<1> DEFINE u == UserOf[t]
<1>1. u \in Users /\ \A m \in thread : m \in MessageIds /\ message[m] \in Rows
  BY ConversationsAssumption DEF ConversationsInv, Typed, Live
<1>2. /\ req[t] = Idle /\ MayRun(t) /\ UNCHANGED <<alone, message>>
      /\ \A s \in Tabs \ {t} : req'[s] = req[s]
  BY DEF ReadThread, Begin, Goto, ConversationsInv, Typed
<1>3. /\ \A m \in MessageIds : message'[m] = message[m]
      /\ Live' = Live
  BY <1>2 DEF Live
<1>4. KeepsColumns
  BY <1>3 DEF KeepsColumns
<1>5. DirectNamesUser'
  BY <1>2, <1>3 DEF ConversationsInv, DirectNamesUser
<1>6. \A v \in Page(u, thread) :
        v \in Views /\ v.user = u /\ v.id \in thread /\ MaySee(v.user, v.id) /\ Held(v)
  <2> SUFFICES ASSUME NEW m \in thread, message[m].sender # u
               PROVE  LET v == [user |-> u, id |-> m, text |-> message[m].text]
                      IN  v \in Views /\ v.user = u /\ v.id \in thread /\ MaySee(v.user, v.id) /\ Held(v)
    BY DEF Page
  <2> QED
    BY <1>1 DEF Views, Rows, MaySee, Held, Live
<1>7. CASE ToMark(u, thread) = {}
  <2>1. shown' = shown \union Page(u, thread) /\ req' = req
    BY <1>7 DEF ReadThread
  <2>2. \A v \in Page(u, thread) : ReadBy(v.user, v.id)
    BY <1>6, <1>7 DEF ToMark, Held
  <2>3. Typed'
    BY <1>2, <1>6, <2>1 DEF ConversationsInv, Typed
  <2>4. ReadersAreParties'
    <3>1. \A v \in shown' : MaySee(v.user, v.id)
      BY <1>6, <2>1 DEF ConversationsInv, ReadersAreParties
    <3> QED
      BY <1>2, <1>3, <3>1 DEF ConversationsInv, ReadersAreParties, MaySee, PartyTo
  <2>5. RequestOfParty(t)'
    BY <1>2, <2>1 DEF RequestOfParty, Idle
  <2>6. ASSUME alone PROVE ShownHeld' /\ RequestFresh(t)'
    <3>1. \A v \in shown' : Held(v) /\ ReadBy(v.user, v.id)
      BY <1>6, <2>1, <2>2, <2>6 DEF ConversationsInv, ShownHeld
    <3> QED
      BY <1>2, <1>3, <2>1, <3>1 DEF ShownHeld, Held, ReadBy, RequestFresh, Idle
  <2> QED
    BY <1>2, <1>4, <1>5, <2>3, <2>4, <2>5, <2>6, OthersIdle, StepKeeps
<1>8. CASE ToMark(u, thread) # {}
  <2> DEFINE marking == [step |-> "mark", ok |-> TRUE, page |-> Page(u, thread),
                         stale |-> [m \in ToMark(u, thread) |-> message[m].readBy]]
  <2>1. shown' = shown /\ req' = [req EXCEPT ![t] = marking]
    BY <1>8 DEF ReadThread, Begin, Goto
  <2>2. /\ marking.step = "mark" /\ marking.page = Page(u, thread)
        /\ DOMAIN marking.stale = ToMark(u, thread)
        /\ \A m \in ToMark(u, thread) : marking.stale[m] = message[m].readBy
    OBVIOUS
  <2>3. marking \in RequestStates
    <3>1. ToMark(u, thread) \in SUBSET MessageIds /\ Page(u, thread) \in SUBSET Views
      BY <1>1, <1>6 DEF ToMark
    <3>2. [m \in ToMark(u, thread) |-> message[m].readBy] \in [ToMark(u, thread) -> SUBSET Users]
      BY <1>1 DEF ToMark, Rows
    <3> QED
      BY <3>1, <3>2 DEF RequestStates, Marks
  <2> HIDE DEF marking
  <2>4. req'[t] = marking /\ Typed'
    BY <1>2, <2>1, <2>3 DEF ConversationsInv, Typed
  <2>5. ReadersAreParties'
    BY <1>2, <1>3, <2>1 DEF ConversationsInv, ReadersAreParties, MaySee, PartyTo
  <2>6. RequestOfParty(t)'
    <3>1. \A n \in ToMark(u, thread) : MaySee(u, n) /\ \A w \in message[n].readBy : MaySee(w, n)
      BY <1>1 DEF ToMark, MaySee, Live, ConversationsInv, ReadersAreParties
    <3> QED
      BY <1>2, <1>3, <1>6, <2>2, <2>4, <3>1 DEF RequestOfParty, MaySee, PartyTo
  <2>7. ASSUME alone PROVE ShownHeld' /\ RequestFresh(t)'
    <3>1. ShownHeld'
      BY <1>2, <1>3, <2>1, <2>7 DEF ConversationsInv, ShownHeld, Held, ReadBy
    <3>2. \A v \in Page(u, thread) : v.id \in ToMark(u, thread) \/ ReadBy(v.user, v.id)
      BY <1>6 DEF ToMark, Held
    <3>3. ToMark(u, thread) \subseteq Live
      BY DEF ToMark
    <3> QED
      BY <1>2, <1>3, <1>6, <2>2, <2>4, <3>1, <3>2, <3>3 DEF RequestFresh, Held, ReadBy
  <2> QED
    BY <1>2, <1>4, <1>5, <2>1, <2>4, <2>5, <2>6, <2>7, OthersIdle, StepKeeps
<1> QED
  BY <1>7, <1>8
LEMMA MarkKeeps ==
  ASSUME ConversationsInv, NEW t \in Tabs, NEW m \in MessageIds, MarkRead(t, m)
  PROVE  ConversationsInv'
<1> DEFINE u == UserOf[t]
           stale == req[t].stale
           rest == DOMAIN stale \ {m}
           left == [n \in rest |-> stale[n]]
           ok == req[t].ok /\ m \in Live
           marking == [step |-> "mark", ok |-> ok, page |-> req[t].page, stale |-> left]
           row == [message[m] EXCEPT !.readBy = stale[m] \union {u}]
<1>1. /\ req[t].step = "mark" /\ m \in DOMAIN stale
      /\ req' = [req EXCEPT ![t] = marking]
      /\ message' = IF m \in Live THEN [message EXCEPT ![m] = row] ELSE message
      /\ UNCHANGED <<alone, shown>>
  BY DEF MarkRead, Goto, Readers
<1>2. req[t] \in Marks /\ u \in Users
  <2>1. \A s \in Marks : s.step = "mark"
    BY DEF Marks
  <2>2. req[t] \in RequestStates /\ req[t].step = "mark"
    BY <1>1 DEF ConversationsInv, Typed
  <2> QED
    BY <2>1, <2>2, ConversationsAssumption DEF RequestStates, Idle
<1>3. /\ DOMAIN stale \in SUBSET MessageIds /\ stale \in [DOMAIN stale -> SUBSET Users]
      /\ req[t].page \in SUBSET Views
  BY <1>2 DEF Marks
<1>4. /\ marking \in RequestStates /\ marking.step = "mark" /\ marking.page = req[t].page
      /\ DOMAIN marking.stale = rest /\ \A n \in rest : marking.stale[n] = stale[n]
  <2>1. rest \in SUBSET MessageIds /\ left \in [rest -> SUBSET Users]
    BY <1>3
  <2>2. ok \in BOOLEAN
    BY <1>2 DEF Marks
  <2>3. DOMAIN left = rest /\ \A n \in rest : left[n] = stale[n]
    OBVIOUS
  <2> HIDE DEF ok, left, rest
  <2>4. marking \in Marks /\ marking.step = "mark" /\ marking.page = req[t].page /\ marking.stale = left
    BY <1>3, <2>1, <2>2 DEF Marks
  <2> QED
    BY <2>3, <2>4 DEF RequestStates
<1>5. m \in Live =>
        /\ message[m] \in Rows /\ row \in Rows
        /\ row.sender = message[m].sender /\ row.toUser = message[m].toUser
        /\ row.toRole = message[m].toRole /\ row.inCase = message[m].inCase
        /\ row.text = message[m].text /\ row.readBy = stale[m] \union {u}
  BY <1>1, <1>2, <1>3 DEF Live, ConversationsInv, Typed, Rows
<1> HIDE DEF marking, row
<1>6. /\ req'[t] = marking /\ \A s \in Tabs \ {t} : req'[s] = req[s]
      /\ \A n \in MessageIds \ {m} : message'[n] = message[n]
      /\ message'[m] = IF m \in Live THEN row ELSE message[m]
  BY <1>1 DEF ConversationsInv, Typed
<1>7. Typed'
  BY <1>1, <1>4, <1>5 DEF ConversationsInv, Typed
<1>8. /\ KeepsColumns
      /\ Live' \subseteq Live
  BY <1>5, <1>6, SentinelsAssumption DEF KeepsColumns, Live
<1>9. DirectNamesUser'
  BY <1>8 DEF KeepsColumns, Live, ConversationsInv, DirectNamesUser
<1>10. RequestOfParty(t)'
  <2>1. /\ \A v \in req[t].page : MaySee(v.user, v.id)'
        /\ \A n \in DOMAIN stale : MaySee(u, n)' /\ \A w \in stale[n] : MaySee(w, n)'
    BY <1>1, <1>3, <1>8, MaySeeStays DEF ConversationsInv, RequestOfParty, Views
  <2> QED
    BY <1>4, <1>6, <2>1 DEF RequestOfParty
<1>11. ReadersAreParties'
  <2>1. ASSUME NEW n \in Live', NEW w \in message'[n].readBy PROVE PartyTo(w, message'[n])
    <3>1. CASE n # m
      BY <1>6, <1>8, <3>1 DEF ConversationsInv, ReadersAreParties, Live
    <3>2. CASE n = m
      <4>1. m \in Live /\ w \in stale[m] \union {u}
        BY <1>5, <1>6, <1>8, <3>2, <2>1
      <4>2. PartyTo(w, message[m])
        BY <1>1, <4>1 DEF ConversationsInv, RequestOfParty, MaySee
      <4> QED
        BY <1>5, <1>6, <3>2, <4>1, <4>2 DEF PartyTo
    <3> QED
      BY <3>1, <3>2
  <2>2. \A v \in shown' : MaySee(v.user, v.id)'
    BY <1>1, <1>8, MaySeeStays DEF ConversationsInv, ReadersAreParties, Typed, Views
  <2> QED
    BY <2>1, <2>2 DEF ReadersAreParties, PartyTo
<1>12. ASSUME alone PROVE ShownHeld' /\ RequestFresh(t)'
  <2>1. m \in Live /\ stale[m] = message[m].readBy
    BY <1>1, <1>12 DEF ConversationsInv, RequestFresh
  <2>2. /\ Live' = Live
        /\ \A n \in Live : /\ message'[n].text = message[n].text
                           /\ message'[n].sender = message[n].sender
                           /\ message[n].readBy \subseteq message'[n].readBy
    BY <1>1, <1>5, <1>6, <2>1, SentinelsAssumption DEF Live
  <2>3. ShownHeld'
    BY <1>1, <1>12, <2>2 DEF ConversationsInv, ShownHeld, Held, ReadBy
  <2>4. ASSUME NEW v \in req[t].page
        PROVE  Held(v)' /\ v.user = u /\ (v.id \in rest \/ ReadBy(v.user, v.id)')
    <3>1. Held(v) /\ v.user = u /\ (v.id \in DOMAIN stale \/ ReadBy(v.user, v.id))
      BY <1>1, <1>12 DEF ConversationsInv, RequestFresh
    <3>2. u \in message'[m].readBy
      BY <1>5, <1>6, <2>1
    <3> QED
      BY <2>2, <3>1, <3>2 DEF Held, ReadBy
  <2>5. \A n \in rest : n \in Live /\ stale[n] = message'[n].readBy
    BY <1>1, <1>3, <1>6, <1>12 DEF ConversationsInv, RequestFresh
  <2> QED
    BY <1>4, <1>6, <2>2, <2>3, <2>4, <2>5 DEF RequestFresh
<1> QED
  BY <1>1, <1>6, <1>7, <1>8, <1>9, <1>10, <1>11, <1>12, OthersIdle, StepKeeps DEF Idle

\* Ends of requests that change no message.
LEMMA EndKeeps ==
  ASSUME ConversationsInv, NEW t \in Tabs, req[t] # Idle, End(t),
         UNCHANGED <<alone, message>>,
         shown' = shown \/ (req[t].step = "mark" /\ DOMAIN req[t].stale = {}
                            /\ shown' = shown \union req[t].page)
  PROVE  ConversationsInv'
<1>1. /\ req'[t] = Idle /\ \A s \in Tabs \ {t} : req'[s] = req[s]
      /\ req' = [req EXCEPT ![t] = Idle]
  BY DEF End, Goto, ConversationsInv, Typed
<1>2. Idle \in RequestStates
  BY DEF RequestStates
<1>3. Live' = Live
  BY DEF Live
<1>4. req[t].step = "mark" => req[t].page \subseteq Views
  BY DEF ConversationsInv, Typed, RequestStates, Marks, Idle
<1>5. Typed'
  BY <1>1, <1>2, <1>4 DEF ConversationsInv, Typed
<1>6. KeepsColumns /\ DirectNamesUser'
  BY <1>3 DEF KeepsColumns, DirectNamesUser, ConversationsInv
<1>7. ReadersAreParties'
  <2>1. \A v \in shown' : MaySee(v.user, v.id)
    BY DEF ConversationsInv, ReadersAreParties, RequestOfParty
  <2> QED
    BY <1>3, <2>1 DEF ConversationsInv, ReadersAreParties, MaySee, PartyTo
<1>8. RequestOfParty(t)'
  BY <1>1 DEF RequestOfParty, Idle
<1>9. ASSUME alone PROVE ShownHeld' /\ RequestFresh(t)'
  <2>1. \A v \in shown' : Held(v) /\ ReadBy(v.user, v.id)
    BY <1>9 DEF ConversationsInv, ShownHeld, RequestFresh
  <2> QED
    BY <1>1, <1>3, <2>1 DEF ShownHeld, Held, ReadBy, RequestFresh, Idle
<1> QED
  BY <1>1, <1>5, <1>6, <1>7, <1>8, <1>9, OthersIdle, StepKeeps

\* Requests that begin with a message m of their own.
LEMMA CheckKeeps ==
  ASSUME ConversationsInv, NEW t \in Tabs, NEW m \in MessageIds,
         CheckEdit(t, m) \/ CheckRemove(t, m) \/ CheckSave(t, m)
  PROVE  ConversationsInv'
<1>1. /\ req[t] = Idle /\ MayRun(t) /\ UNCHANGED <<alone, message, shown>> /\ m \in Live
      /\ \E text \in Texts :
           \/ OwnUnread(UserOf[t], m) /\ req' = [req EXCEPT ![t] = [step |-> "edit", id |-> m, text |-> text]]
           \/ OwnUnread(UserOf[t], m) /\ req' = [req EXCEPT ![t] = [step |-> "remove", id |-> m]]
           \/ /\ MaySave(UserOf[t], message[m])
              /\ req' = [req EXCEPT ![t] = [step |-> "save", source |-> m, text |-> text]]
  <2>1. m \in Live => message[m].text \in Texts
    BY DEF Live, ConversationsInv, Typed, Rows
  <2>2. CASE CheckEdit(t, m)
    <3>1. m \in Live /\ message[m].text + 1 \in Texts
      BY <2>1, <2>2, ConversationsAssumption DEF CheckEdit, OwnUnread, Texts
    <3> QED
      BY <2>2, <3>1 DEF CheckEdit, Begin, Goto
  <2>3. CASE CheckRemove(t, m)
    <3>1. m \in Live /\ message[m].text \in Texts
      BY <2>1, <2>3 DEF CheckRemove, OwnUnread
    <3> QED
      BY <2>3, <3>1 DEF CheckRemove, Begin, Goto
  <2>4. CASE CheckSave(t, m)
    BY <2>1, <2>4 DEF CheckSave, Begin, Goto
  <2> QED
    BY <2>2, <2>3, <2>4
<1>2. /\ \A s \in Tabs \ {t} : req'[s] = req[s]
      /\ req'[t] \in RequestStates /\ Typed'
      /\ \/ /\ req'[t].step \in {"edit", "remove"} /\ req'[t].id = m
            /\ OwnUnread(UserOf[t], m)
         \/ req'[t].step = "save" /\ req'[t].source = m /\ MaySave(UserOf[t], message[m])
  BY <1>1 DEF ConversationsInv, Typed, RequestStates
<1>3. Live' = Live
  BY <1>1 DEF Live
<1>4. KeepsColumns /\ DirectNamesUser' /\ ReadersAreParties'
  BY <1>1, <1>3 DEF KeepsColumns, DirectNamesUser, ReadersAreParties, ConversationsInv, MaySee, PartyTo
<1>5. RequestOfParty(t)'
  <2>1. CASE req'[t].step \in {"edit", "remove"}
    BY <2>1 DEF RequestOfParty
  <2>2. CASE req'[t].step = "save" /\ req'[t].source = m /\ MaySave(UserOf[t], message[m])
    <3>1. message[m] \in Rows /\ UserOf[t] \in Users /\ message[m] # NoMessage
      BY <1>1, ConversationsAssumption DEF Live, ConversationsInv, Typed
    <3>2. PartyTo(UserOf[t], message[m])
      BY <2>2, <3>1, VisibleIsParty
    <3> QED
      BY <1>1, <1>3, <2>2, <3>1, <3>2 DEF RequestOfParty, MaySee, PartyTo
  <2> QED
    BY <1>2, <2>1, <2>2
<1>6. ASSUME alone PROVE ShownHeld' /\ RequestFresh(t)'
  <2>1. ShownHeld'
    BY <1>1, <1>3, <1>6 DEF ConversationsInv, ShownHeld, Held, ReadBy
  <2>2. RequestFresh(t)'
    BY <1>1, <1>2, <1>3 DEF RequestFresh, OwnUnread
  <2> QED
    BY <2>1, <2>2
<1> QED
  BY <1>1, <1>2, <1>4, <1>5, <1>6, OthersIdle, StepKeeps
LEMMA WriteEditKeeps ==
  ASSUME ConversationsInv, NEW t \in Tabs, WriteEdit(t)
  PROVE  ConversationsInv'
<1> DEFINE m == req[t].id
           row == [message[m] EXCEPT !.text = req[t].text]
<1>1. /\ req[t].step = "edit" /\ req' = [req EXCEPT ![t] = Idle]
      /\ message' = IF m \in Live THEN [message EXCEPT ![m] = row] ELSE message
      /\ UNCHANGED <<alone, shown>>
  BY DEF WriteEdit, End, Goto
<1>2. m \in MessageIds /\ req[t].text \in Texts
  BY <1>1 DEF ConversationsInv, Typed, RequestStates, Marks, Idle
<1>3. m \in Live =>
        /\ message[m] \in Rows /\ row \in Rows
        /\ row.sender = message[m].sender /\ row.toUser = message[m].toUser
        /\ row.toRole = message[m].toRole /\ row.inCase = message[m].inCase
        /\ row.readBy = message[m].readBy
  BY <1>2 DEF Live, ConversationsInv, Typed, Rows
<1> HIDE DEF m, row
<1>4. /\ req'[t] = Idle /\ \A s \in Tabs \ {t} : req'[s] = req[s]
      /\ \A n \in MessageIds \ {m} : message'[n] = message[n]
      /\ message'[m] = IF m \in Live THEN row ELSE message[m]
  BY <1>1, <1>2 DEF ConversationsInv, Typed
<1>5. Typed'
  BY <1>1, <1>2, <1>3 DEF ConversationsInv, Typed, RequestStates
<1>6. KeepsColumns /\ Live' \subseteq Live
  BY <1>3, <1>4, SentinelsAssumption DEF KeepsColumns, Live
<1>7. DirectNamesUser'
  BY <1>6 DEF KeepsColumns, Live, ConversationsInv, DirectNamesUser
<1>8. ReadersAreParties'
  <2>1. \A n \in Live' : message'[n].readBy = message[n].readBy
    BY <1>3, <1>4, <1>6 DEF Live
  <2>2. \A n \in Live' : \A u \in message'[n].readBy : PartyTo(u, message'[n])
    BY <1>6, <2>1 DEF ConversationsInv, ReadersAreParties, KeepsColumns, Live, PartyTo
  <2>3. \A v \in shown' : MaySee(v.user, v.id)'
    BY <1>1, <1>6, MaySeeStays DEF ConversationsInv, ReadersAreParties, Typed, Views
  <2> QED
    BY <2>2, <2>3 DEF ReadersAreParties, PartyTo
<1>9. RequestOfParty(t)'
  BY <1>4 DEF RequestOfParty, Idle
<1>10. ASSUME alone PROVE ShownHeld' /\ RequestFresh(t)'
  <2>1. /\ m \in Live /\ message[m].sender = UserOf[t] /\ message[m].readBy \subseteq {UserOf[t]}
        /\ \A v \in shown : Held(v) /\ ReadBy(v.user, v.id)
    BY <1>1, <1>10 DEF ConversationsInv, RequestFresh, ShownHeld, m
  <2>2. \A v \in shown : v.id # m
    BY <2>1 DEF Held, ReadBy
  <2>3. \A v \in shown : v.id \in Live' /\ message'[v.id] = message[v.id]
    BY <1>4, <2>1, <2>2 DEF Held, Live
  <2> QED
    BY <1>1, <1>4, <2>1, <2>3 DEF ShownHeld, Held, ReadBy, RequestFresh, Idle
<1> QED
  BY <1>1, <1>4, <1>5, <1>6, <1>7, <1>8, <1>9, <1>10, OthersIdle, StepKeeps DEF Idle

LEMMA WriteRemoveKeeps ==
  ASSUME ConversationsInv, NEW t \in Tabs, WriteRemove(t)
  PROVE  ConversationsInv'
<1> DEFINE m == req[t].id
<1>1. /\ req[t].step = "remove" /\ req' = [req EXCEPT ![t] = Idle]
      /\ message' = [message EXCEPT ![m] = Deleted]
      /\ UNCHANGED <<alone, shown>>
  BY DEF WriteRemove, End, Goto
<1>2. m \in MessageIds
  BY <1>1 DEF ConversationsInv, Typed, RequestStates, Marks, Idle
<1> HIDE DEF m
<1>3. /\ req'[t] = Idle /\ \A s \in Tabs \ {t} : req'[s] = req[s]
      /\ \A n \in MessageIds \ {m} : message'[n] = message[n]
      /\ message'[m] = Deleted
  BY <1>1, <1>2 DEF ConversationsInv, Typed
<1>4. Typed'
  BY <1>1, <1>2 DEF ConversationsInv, Typed, RequestStates
<1>5. \A n \in Live' : n \in Live /\ n # m /\ message'[n] = message[n]
  BY <1>3 DEF Live
<1>6. KeepsColumns
  BY <1>3, <1>5, SentinelsAssumption DEF KeepsColumns
<1>7. DirectNamesUser'
  BY <1>5 DEF ConversationsInv, DirectNamesUser
<1>8. ReadersAreParties'
  <2>1. \A v \in shown' : MaySee(v.user, v.id)'
    BY <1>1, <1>6, MaySeeStays DEF ConversationsInv, ReadersAreParties, Typed, Views
  <2> QED
    BY <1>5, <2>1 DEF ConversationsInv, ReadersAreParties, PartyTo
<1>9. RequestOfParty(t)'
  BY <1>3 DEF RequestOfParty, Idle
<1>10. ASSUME alone PROVE ShownHeld' /\ RequestFresh(t)'
  <2>1. /\ m \in Live /\ message[m].sender = UserOf[t] /\ message[m].readBy \subseteq {UserOf[t]}
        /\ \A v \in shown : Held(v) /\ ReadBy(v.user, v.id)
    BY <1>1, <1>10 DEF ConversationsInv, RequestFresh, ShownHeld, m
  <2>2. \A v \in shown : v.id # m
    BY <2>1 DEF Held, ReadBy
  <2>3. \A v \in shown : v.id \in Live' /\ message'[v.id] = message[v.id]
    BY <1>3, <2>1, <2>2 DEF Held, Live
  <2> QED
    BY <1>1, <1>3, <2>1, <2>3 DEF ShownHeld, Held, ReadBy, RequestFresh, Idle
<1> QED
  BY <1>1, <1>3, <1>4, <1>6, <1>7, <1>8, <1>9, <1>10, OthersIdle, StepKeeps DEF Idle

LEMMA WriteSaveKeeps ==
  ASSUME ConversationsInv, NEW t \in Tabs, WriteSave(t)
  PROVE  ConversationsInv'
<1> DEFINE u == UserOf[t]
           row == [inCase |-> FALSE, sender |-> u, toUser |-> u, toRole |-> NoRole,
                   text |-> req[t].text, readBy |-> {u}]
<1>1. PICK m \in MessageIds : message[m] = NoMessage /\ message' = [message EXCEPT ![m] = row]
  BY DEF WriteSave, Create
<1>2. req[t].step = "save" /\ req' = [req EXCEPT ![t] = Idle] /\ UNCHANGED <<alone, shown>>
  BY DEF WriteSave, End, Goto
<1>3. u \in Users /\ req[t].text \in Texts
  <2>1. req[t] \in RequestStates
    BY DEF ConversationsInv, Typed
  <2> QED
    BY <1>2, <2>1, ConversationsAssumption DEF RequestStates, Marks, Idle
<1>4. /\ row \in Rows /\ row.sender = u /\ row.toUser = u /\ row.toUser # Nobody
      /\ row.toRole = NoRole /\ row.readBy = {u}
  BY <1>3, ConversationsAssumption DEF Rows
<1> HIDE DEF row
<1>5. /\ req'[t] = Idle /\ \A s \in Tabs \ {t} : req'[s] = req[s]
      /\ message'[m] = row /\ \A n \in MessageIds \ {m} : message'[n] = message[n]
  BY <1>1, <1>2 DEF ConversationsInv, Typed
<1>6. Typed'
  BY <1>1, <1>2, <1>4 DEF ConversationsInv, Typed, RequestStates
<1>7. /\ \A n \in Live' \ {m} : n \in Live /\ message'[n] = message[n]
      /\ m \notin Live /\ \A n \in Live : n # m /\ n \in Live' /\ message'[n] = message[n]
  BY <1>1, <1>5 DEF Live
<1>8. KeepsColumns
  BY <1>1, <1>5, <1>7 DEF KeepsColumns
<1>9. DirectNamesUser'
  BY <1>4, <1>5, <1>7 DEF ConversationsInv, DirectNamesUser
<1>10. ReadersAreParties'
  <2>1. PartyTo(u, row)
    BY <1>4 DEF PartyTo
  <2>2. \A n \in Live' : \A w \in message'[n].readBy : PartyTo(w, message'[n])
    BY <2>1, <1>4, <1>5, <1>7 DEF ConversationsInv, ReadersAreParties
  <2>3. \A v \in shown' : MaySee(v.user, v.id)'
    BY <1>2, <1>8, MaySeeStays DEF ConversationsInv, ReadersAreParties, Typed, Views
  <2> QED
    BY <2>2, <2>3 DEF ReadersAreParties, PartyTo
<1>11. RequestOfParty(t)'
  BY <1>5 DEF RequestOfParty, Idle
<1>12. ASSUME alone PROVE ShownHeld' /\ RequestFresh(t)'
  BY <1>2, <1>5, <1>7, <1>12 DEF ConversationsInv, ShownHeld, Held, ReadBy, RequestFresh, Idle
<1> QED
  BY <1>2, <1>5, <1>6, <1>8, <1>9, <1>10, <1>11, <1>12, OthersIdle, StepKeeps DEF Idle

-----------------------------------------------------------------------------
LEMMA StutterKeeps ==
  ASSUME ConversationsInv, UNCHANGED vars
  PROVE  ConversationsInv'
<1>1. /\ Live' = Live
      /\ \A t \in Tabs : RequestOfParty(t)' = RequestOfParty(t) /\ RequestFresh(t)' = RequestFresh(t)
  BY DEF vars, Live, RequestOfParty, RequestFresh, MaySee, Held, ReadBy, PartyTo
<1> QED
  BY <1>1 DEF vars, ConversationsInv, Typed, DirectNamesUser, ReadersAreParties, OneRuns,
              ShownHeld, MaySee, Held, ReadBy, PartyTo

(***************************************************************************)
(* The invariant holds of every state: what a request carries over an      *)
(* await, and what alone makes true (messages.module.ts).                  *)
(***************************************************************************)
THEOREM ConversationsInductive == Spec => []ConversationsInv
<1>1. Init => ConversationsInv
  <2> SUFFICES ASSUME Init PROVE ConversationsInv
    OBVIOUS
  <2>1. Typed
    BY DEF Init, Typed, RequestStates
  <2>2. Live = {}
    BY DEF Init, Live
  <2> QED
    BY <2>1, <2>2 DEF Init, ConversationsInv, DirectNamesUser, ReadersAreParties, RequestOfParty,
                      OneRuns, ShownHeld, RequestFresh, Idle
<1>2. ConversationsInv /\ [Next]_vars => ConversationsInv'
  <2> SUFFICES ASSUME ConversationsInv, [Next]_vars PROVE ConversationsInv'
    OBVIOUS
  <2>1. CASE Next
    <3>1. PICK t \in Tabs : Receive(t) \/ Advance(t) \/ AbortRequest(t)
      BY <2>1 DEF Next
    <3>2. UserOf[t] \in Users
      BY ConversationsAssumption
    <3>3. CASE \E to \in Addresses : Send(t, to)
      BY <3>3, SendKeeps
    <3>4. ASSUME NEW v, NEW thread, thread \in {CaseThread(UserOf[t]), DmThread(UserOf[t], v)},
                 ReadThread(t, thread)
          PROVE  ConversationsInv'
      <4>1. \A m \in thread : m \in Live /\ PartyTo(UserOf[t], message[m])
        BY <3>2, <3>4, ThreadsOfParties DEF ConversationsInv
      <4> QED
        BY <3>4, <4>1, ReadKeeps
    <3>5. CASE \/ OpenCase(t) \/ OpenSaved(t)
               \/ \E other \in Users \ {UserOf[t]} : OpenDm(t, other)
      BY <3>4, <3>5 DEF OpenCase, OpenSaved, SavedThread, OpenDm
    <3>6. CASE \E m \in MessageIds : CheckEdit(t, m) \/ CheckRemove(t, m) \/ CheckSave(t, m)
      BY <3>6, CheckKeeps
    <3>7. CASE \E m \in MessageIds : MarkRead(t, m)
      BY <3>7, MarkKeeps
    <3>8. CASE SendPage(t) \/ AbortRequest(t)
      BY <3>8, EndKeeps DEF SendPage, AbortRequest, Idle
    <3>9. CASE WriteEdit(t) \/ WriteRemove(t) \/ WriteSave(t)
      BY <3>9, WriteEditKeeps, WriteRemoveKeeps, WriteSaveKeeps
    <3> QED
      BY <3>1, <3>3, <3>5, <3>6, <3>7, <3>8, <3>9 DEF Receive, Advance
  <2>2. CASE UNCHANGED vars
    BY <2>2, StutterKeeps
  <2> QED
    BY <2>1, <2>2
<1> QED
  BY <1>1, <1>2, PTL DEF Spec

\* Every message the badge of u counts is in a thread that u can open.
LEMMA BadgeReachable ==
  ASSUME Typed, DirectNamesUser
  PROVE  UnreadReachable
<1> SUFFICES ASSUME NEW u \in Users, NEW m \in Unread(u)
             PROVE  \/ m \in CaseThread(u) /\ Inbox(u).case
                    \/ \E v \in Inbox(u).dms : m \in DmThread(u, v)
  BY DEF UnreadReachable
<1>1. /\ m \in Live /\ message[m] \in Rows
      /\ message[m].sender # u /\ VisibleTo(u, message[m])
  BY DEF Unread, Live, Typed
<1>2. CASE message[m].inCase
  BY <1>1, <1>2 DEF CaseThread, Inbox
<1>3. CASE ~message[m].inCase
  <2>1. message[m].toUser = u
    BY <1>1, <1>3 DEF DirectNamesUser, VisibleTo
  <2>2. message[m].sender \in Inbox(u).dms
    BY <1>1, <1>3, <2>1 DEF Inbox
  <2>3. m \in DmThread(u, message[m].sender)
    BY <1>1, <1>3, <2>1 DEF DmThread
  <2> QED
    BY <2>2, <2>3
<1> QED
  BY <1>2, <1>3

(***************************************************************************)
(* A text reaches the parties of its message and nobody else, what the     *)
(* badge counts can be found, and, where handlers run one at a time, what  *)
(* was seen is neither edited nor removed (visibleTo, ownUnreadMessage).   *)
(***************************************************************************)
THEOREM SeenByPartiesOnly == Spec => []WhatIsSeen
<1>1. ConversationsInv => WhatIsSeen
  <2> SUFFICES ASSUME ConversationsInv PROVE WhatIsSeen
    OBVIOUS
  <2>1. ASSUME NEW u \in Users, NEW m \in Feed(u) \union InboxTexts(u) \union Unread(u)
        PROVE  PartyTo(u, message[m])
    <3>1. CASE m \in Unread(u)
      <4>1. message[m] \in Rows /\ VisibleTo(u, message[m])
        BY <3>1 DEF Unread, Live, ConversationsInv, Typed
      <4> QED
        BY <4>1, VisibleIsParty
    <3>2. CASE m \in Feed(u) \union InboxTexts(u)
      <4>1. \E v : m \in CaseThread(u) \union DmThread(u, v)
        BY <3>2 DEF Feed, InboxTexts
      <4> QED
        BY <4>1, ThreadsOfParties DEF ConversationsInv
    <3> QED
      BY <3>1, <3>2
  <2>2. PartiesOnly
    BY <2>1 DEF PartiesOnly, ConversationsInv, ReadersAreParties, RequestOfParty, MaySee
  <2>3. SeenStaysTrue
    BY DEF SeenStaysTrue, ConversationsInv, ShownHeld, Held
  <2> QED
    BY <2>2, <2>3, BadgeReachable DEF WhatIsSeen, ConversationsInv
<1> QED
  BY <1>1, ConversationsInductive, PTL
=============================================================================
