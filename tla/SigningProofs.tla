----------------------------- MODULE SigningProofs -----------------------------
(***************************************************************************)
(* Proofs about Signing for any directors, data, documents and challenge   *)
(* ids and any number of requests in flight.                               *)
(***************************************************************************)
EXTENDS MCSigning, FiniteSetTheorems, TLAPS

-----------------------------------------------------------------------------
\* The record kept by a request is told by its step.
LEMMA RequestKinds ==
  ASSUME TypeOK, NEW r \in Requests
  PROVE  /\ req[r].step \in {"render", "supersede", "issue"} => req[r] \in PrepareRequests
         /\ req[r].step \in {"find", "read", "check", "sign"} => req[r] \in CommitRequests
         /\ req[r].step = "move" => req[r] \in TransitionRequests
         /\ req[r].step = "edit" => req[r] \in EditRequests
BY DEF TypeOK, RequestStates, Idle, PrepareRequests, CommitRequests, FailRequests,
       TransitionRequests, EditRequests

\* A rule found in the table leads to a status.
LEMMA RulesLead ==
  \A rule \in Transitions : rule.to \in Statuses
BY DEF Transitions, Rule, Statuses

\* Writing one file leaves a set of files, and none is one too.
LEMMA FilesWritten ==
  /\ NoFiles \in Files
  /\ \A f \in Files, k \in Docs, x \in Renderings \union {NoFile} : [f EXCEPT ![k] = x] \in Files
  /\ \A x \in Renderings : AllOf(x) \in Manifests
BY DEF NoFiles, Files, AllOf, Manifests

\* The document after one that is not the last is a document.
LEMMA NextDoc ==
  ASSUME NEW k \in Docs, k # LastDoc
  PROVE  k + 1 \in Docs
BY SigningAssumption DEF Docs

\* A step of a request leaves the records of the others: types of req follow
\* from the type of the one record that is new.
LEMMA OneRequest ==
  ASSUME TypeOK, NEW r \in Requests, NEW s \in RequestStates,
         req' = [req EXCEPT ![r] = s]
  PROVE  req' \in [Requests -> RequestStates]
BY DEF TypeOK

-----------------------------------------------------------------------------
\* Types are kept by the steps of prepare.
LEMMA PrepareTypes ==
  ASSUME TypeOK, NEW r \in Requests,
         \/ \E u \in Directors : Prepare(r, u)
         \/ RenderDoc(r) \/ RenderFails(r) \/ Supersede(r) \/ Issue(r)
  PROVE  TypeOK'
<1> USE SigningAssumption
<1>1. CASE \E u \in Directors : Prepare(r, u)
  <2>1. PICK u \in Directors, stamp \in Stamps :
          req' = [req EXCEPT ![r] = [step |-> "render", user |-> u, next |-> 1,
                                     made |-> [data |-> data, stamp |-> stamp]]]
    BY <1>1 DEF Prepare, Begin
  <2>2. [step |-> "render", user |-> u, next |-> 1, made |-> [data |-> data, stamp |-> stamp]]
          \in RequestStates
    BY DEF TypeOK, RequestStates, PrepareRequests, Renderings, Docs
  <2>3. req' \in [Requests -> RequestStates]
    BY <2>1, <2>2, OneRequest
  <2> QED BY <1>1, <2>3 DEF TypeOK, Prepare, caseRow, desk
<1>2. CASE RenderDoc(r)
  <2>1. req[r] \in PrepareRequests
    BY <1>2, RequestKinds DEF RenderDoc
  <2>2. files' \in Files
    BY <1>2, <2>1, FilesWritten DEF RenderDoc, PrepareRequests, TypeOK
  <2>3. req' \in [Requests -> RequestStates]
    <3>1. CASE req[r].next = LastDoc
      <4>1. [req[r] EXCEPT !.step = "supersede"] \in RequestStates
        BY <2>1 DEF RequestStates, PrepareRequests
      <4> QED BY <1>2, <3>1, <4>1, OneRequest DEF RenderDoc, Goto, TypeOK
    <3>2. CASE req[r].next # LastDoc
      <4>1. req[r].next + 1 \in Docs
        BY <2>1, <3>2, NextDoc DEF PrepareRequests
      <4>2. [req[r] EXCEPT !.next = @ + 1] \in RequestStates
        BY <2>1, <4>1 DEF RequestStates, PrepareRequests
      <4> QED BY <1>2, <3>2, <4>2, OneRequest DEF RenderDoc, TypeOK
    <3> QED BY <3>1, <3>2
  <2> QED BY <1>2, <2>2, <2>3 DEF TypeOK, RenderDoc, caseRow
<1>3. CASE RenderFails(r)
  <2>1. req' \in [Requests -> RequestStates]
    BY <1>3, OneRequest DEF RenderFails, End, RequestStates
  <2> QED BY <1>3, <2>1, FilesWritten DEF TypeOK, RenderFails, caseRow
<1>4. CASE Supersede(r)
  <2>1. req[r] \in PrepareRequests
    BY <1>4, RequestKinds DEF Supersede
  <2>2. [req[r] EXCEPT !.step = "issue"] \in RequestStates
    BY <2>1 DEF RequestStates, PrepareRequests
  <2>3. req' \in [Requests -> RequestStates]
    BY <1>4, <2>2, OneRequest DEF Supersede, Goto, TypeOK
  <2> QED BY <1>4, <2>3 DEF TypeOK, Supersede, caseRow
<1>5. CASE Issue(r)
  <2>1. req[r] \in PrepareRequests
    BY <1>5, RequestKinds DEF Issue
  <2>2. req[r].user \in Directors /\ AllOf(req[r].made) \in Manifests
    BY <2>1, FilesWritten DEF PrepareRequests
  <2>3. PICK i \in ChallengeIds :
          /\ challenge' = [challenge EXCEPT ![i] =
               [user |-> req[r].user, manifest |-> AllOf(req[r].made), expired |-> FALSE]]
          /\ browser' = browser \union
               {[id |-> i, user |-> req[r].user, manifest |-> AllOf(req[r].made)]}
    BY <1>5 DEF Issue
  <2>4. /\ [user |-> req[r].user, manifest |-> AllOf(req[r].made), expired |-> FALSE] \in Challenges
        /\ [id |-> i, user |-> req[r].user, manifest |-> AllOf(req[r].made)] \in Prepared
    BY <2>2 DEF Challenges, Prepared
  <2>5. req' \in [Requests -> RequestStates]
    BY <1>5, OneRequest DEF Issue, End, RequestStates
  <2>6. /\ challenge' \in [ChallengeIds -> Challenges \union {NoChallenge}]
        /\ browser' \subseteq Prepared
    BY <2>3, <2>4 DEF TypeOK
  <2> QED BY <1>5, <2>5, <2>6 DEF TypeOK, Issue, caseRow
<1> QED BY <1>1, <1>2, <1>3, <1>4, <1>5

\* Types are kept by the steps of commit; that the documents it files are a full
\* set is what CommitsHold is needed for.
LEMMA CommitTypes ==
  ASSUME TypeOK, CommitsHold, NEW r \in Requests,
         \/ \E b \in browser : Commit(r, b)
         \/ FindChallenge(r) \/ ReadDoc(r) \/ CheckSignature(r) \/ Sign(r)
  PROVE  TypeOK'
<1> USE SigningAssumption
<1>1. CASE \E b \in browser : Commit(r, b)
  <2>1. PICK b \in browser :
          req' = [req EXCEPT ![r] = [step |-> "find", from |-> b, held |-> NoChallenge,
                                     next |-> 1, docs |-> NoFiles]]
    BY <1>1 DEF Commit, Begin
  <2>2. [step |-> "find", from |-> b, held |-> NoChallenge, next |-> 1, docs |-> NoFiles]
          \in CommitRequests
    BY FilesWritten DEF TypeOK, CommitRequests, Docs
  <2>3. req' \in [Requests -> RequestStates]
    BY <2>1, <2>2, OneRequest DEF RequestStates
  <2> QED BY <1>1, <2>3 DEF TypeOK, Commit, caseRow, desk
<1>2. CASE FindChallenge(r)
  <2>1. req[r] \in CommitRequests /\ req[r].from.id \in ChallengeIds
    BY <1>2, RequestKinds DEF FindChallenge, CommitRequests, Prepared
  <2>2. req' \in [Requests -> RequestStates]
    <3>1. CASE req' = [req EXCEPT ![r].step = "read", ![r].held = challenge[req[r].from.id]]
      <4>1. challenge[req[r].from.id] \in Challenges \union {NoChallenge}
        BY <2>1 DEF TypeOK
      <4>2. [req[r] EXCEPT !.step = "read", !.held = challenge[req[r].from.id]] \in CommitRequests
        BY <2>1, <4>1 DEF CommitRequests
      <4>3. req' = [req EXCEPT ![r] = [req[r] EXCEPT !.step = "read",
                                                     !.held = challenge[req[r].from.id]]]
        BY <3>1 DEF TypeOK
      <4> QED BY <4>2, <4>3, OneRequest DEF RequestStates
    <3>2. CASE End(r)
      BY <3>2, OneRequest DEF End, RequestStates
    <3> QED BY <1>2, <3>1, <3>2 DEF FindChallenge
  <2>3. challenge' \in [ChallengeIds -> Challenges \union {NoChallenge}]
    BY <1>2 DEF TypeOK, FindChallenge
  <2> QED BY <1>2, <2>2, <2>3 DEF TypeOK, FindChallenge, caseRow
<1>3. CASE ReadDoc(r)
  <2>1. req[r] \in CommitRequests /\ req[r].next \in Docs /\ req[r].docs \in Files
    BY <1>3, RequestKinds DEF ReadDoc, CommitRequests
  <2>2. req' \in [Requests -> RequestStates]
    <3>1. CASE End(r)
      BY <3>1, OneRequest DEF End, RequestStates
    <3>2. CASE ~End(r)
      <4> DEFINE k == req[r].next
                 n == IF k = LastDoc THEN k ELSE k + 1
                 t == IF k = LastDoc THEN "check" ELSE "read"
                 d == [req[r].docs EXCEPT ![k] = files[k]]
      <4>1. n \in Docs /\ d \in Files /\ t \in {"read", "check"}
        BY <2>1, NextDoc, FilesWritten DEF TypeOK, Files
      <4>2. req' = [req EXCEPT ![r] = [req[r] EXCEPT !.docs = d, !.next = n, !.step = t]]
        BY <1>3, <3>2, <2>1 DEF ReadDoc, TypeOK
      <4> HIDE DEF n, t, d
      <4>3. [req[r] EXCEPT !.docs = d, !.next = n, !.step = t] \in CommitRequests
        BY <2>1, <4>1 DEF CommitRequests
      <4> QED BY <4>2, <4>3, OneRequest DEF RequestStates
    <3> QED BY <3>1, <3>2
  <2> QED BY <1>3, <2>2 DEF TypeOK, ReadDoc, caseRow, desk
<1>4. CASE CheckSignature(r)
  <2>1. req[r] \in CommitRequests
    BY <1>4, RequestKinds DEF CheckSignature
  <2>2. [req[r] EXCEPT !.step = "sign"] \in RequestStates
    BY <2>1 DEF RequestStates, CommitRequests
  <2>3. req' \in [Requests -> RequestStates]
    <3>1. CASE Goto(r, "sign")
      BY <3>1, <2>2, OneRequest DEF Goto, TypeOK
    <3>2. CASE End(r)
      BY <3>2, OneRequest DEF End, RequestStates
    <3> QED BY <1>4, <3>1, <3>2 DEF CheckSignature
  <2> QED BY <1>4, <2>3 DEF TypeOK, CheckSignature, caseRow, desk
<1>5. CASE Sign(r)
  <2>1. req[r] \in CommitRequests /\ req[r].from \in Prepared
    BY <1>5, RequestKinds DEF Sign, CommitRequests
  <2>2. req' \in [Requests -> RequestStates]
    BY <1>5, OneRequest DEF Sign, End, RequestStates
  <2>3. /\ status' \in Statuses
        /\ challenge' \in [ChallengeIds -> Challenges \union {NoChallenge}]
    BY <1>5 DEF Sign, TypeOK, Statuses
  <2>4. signature' \in Signatures \union {NoSignature}
    <3>1. CASE signature' = signature
      BY <3>1 DEF TypeOK
    <3>2. CASE signature' = [id |-> req[r].from.id, user |-> req[r].from.user,
                             pkcs7 |-> req[r].from.manifest, manifest |-> req[r].docs]
      <4>1. req[r].docs = req[r].from.manifest
        BY <1>5 DEF Sign, CommitsHold
      <4> QED BY <2>1, <3>2, <4>1 DEF Signatures, Prepared
    <3> QED BY <1>5, <3>1, <3>2 DEF Sign
  <2> QED BY <1>5, <2>2, <2>3, <2>4 DEF TypeOK, Sign
<1> QED BY <1>1, <1>2, <1>3, <1>4, <1>5

\* Types are kept by failure reports, transitions, edits, crashes and time.
LEMMA OtherTypes ==
  ASSUME TypeOK,
         \/ \E i \in ChallengeIds : Expire(i)
         \/ \E r \in Requests :
              \/ \E i \in {b.id : b \in browser} \union {NoChallenge} : ReportFailure(r, i)
              \/ LookForSignature(r) \/ Discard(r)
              \/ ReadForTransition(r) \/ CommitTransition(r)
              \/ \E d \in Data : CheckEdit(r, d)
              \/ WriteEdit(r) \/ AbortRequest(r)
  PROVE  TypeOK'
<1> USE SigningAssumption
<1> DEFINE Ended(r) == req' = [req EXCEPT ![r] = Idle]
<1>0. ASSUME NEW r \in Requests, Ended(r)
      PROVE  req' \in [Requests -> RequestStates]
  BY <1>0, OneRequest DEF RequestStates
<1>1. ASSUME NEW i \in ChallengeIds, Expire(i) PROVE TypeOK'
  <2>1. [challenge[i] EXCEPT !.expired = TRUE] \in Challenges
    BY <1>1 DEF Expire, TypeOK, Challenges
  <2>2. challenge' = [challenge EXCEPT ![i] = [challenge[i] EXCEPT !.expired = TRUE]]
    BY <1>1 DEF Expire, TypeOK
  <2>3. challenge' \in [ChallengeIds -> Challenges \union {NoChallenge}]
    BY <2>1, <2>2 DEF TypeOK
  <2> QED BY <1>1, <2>3 DEF TypeOK, Expire, caseRow
<1>2. ASSUME NEW r \in Requests, NEW i \in {b.id : b \in browser} \union {NoChallenge},
             ReportFailure(r, i)
      PROVE  TypeOK'
  <2>1. [step |-> "look"] \in RequestStates
    BY DEF RequestStates, FailRequests
  <2>2. req' \in [Requests -> RequestStates]
    BY <1>2, <2>1, OneRequest DEF ReportFailure, Begin
  <2>3. challenge' \in [ChallengeIds -> Challenges \union {NoChallenge}]
    BY <1>2 DEF TypeOK, ReportFailure
  <2> QED BY <1>2, <2>2, <2>3 DEF TypeOK, ReportFailure, caseRow
<1>3. ASSUME NEW r \in Requests, LookForSignature(r) PROVE TypeOK'
  <2>1. req[r].step = "look" /\ req[r] \in RequestStates
    BY <1>3 DEF TypeOK, LookForSignature
  <2>2. req[r] \in FailRequests
    BY <2>1 DEF RequestStates, Idle, PrepareRequests, CommitRequests, FailRequests,
                TransitionRequests, EditRequests
  <2>3. [req[r] EXCEPT !.step = "discard"] \in RequestStates
    BY <2>2 DEF RequestStates, FailRequests
  <2>4. req' = [req EXCEPT ![r] = [req[r] EXCEPT !.step = "discard"]] \/ Ended(r)
    BY <1>3 DEF LookForSignature, Goto, End, TypeOK
  <2>5. req' \in [Requests -> RequestStates]
    BY <1>0, <2>3, <2>4, OneRequest
  <2> QED BY <1>3, <2>5 DEF TypeOK, LookForSignature, caseRow, desk
<1>4. ASSUME NEW r \in Requests, Discard(r) PROVE TypeOK'
  <2>1. req' \in [Requests -> RequestStates]
    BY <1>0, <1>4 DEF Discard, End
  <2> QED BY <1>4, <2>1, FilesWritten DEF TypeOK, Discard, caseRow
<1>5. ASSUME NEW r \in Requests, ReadForTransition(r) PROVE TypeOK'
  <2>1. PICK rule \in Transitions : req' = [req EXCEPT ![r] = [step |-> "move", to |-> rule.to]]
    BY <1>5 DEF ReadForTransition, Begin
  <2>2. [step |-> "move", to |-> rule.to] \in RequestStates
    BY RulesLead DEF RequestStates, TransitionRequests
  <2>3. req' \in [Requests -> RequestStates]
    BY <2>1, <2>2, OneRequest
  <2> QED BY <1>5, <2>3 DEF TypeOK, ReadForTransition, caseRow, desk
<1>6. ASSUME NEW r \in Requests, CommitTransition(r) PROVE TypeOK'
  <2>1. status' \in Statuses
    BY <1>6, RequestKinds DEF CommitTransition, TransitionRequests
  <2>2. req' \in [Requests -> RequestStates]
    BY <1>0, <1>6 DEF CommitTransition, End
  <2> QED BY <1>6, <2>1, <2>2 DEF TypeOK, CommitTransition, desk
<1>7. ASSUME NEW r \in Requests, NEW d \in Data, CheckEdit(r, d) PROVE TypeOK'
  <2>1. [step |-> "edit", data |-> d] \in RequestStates
    BY DEF RequestStates, EditRequests
  <2>2. req' \in [Requests -> RequestStates]
    BY <1>7, <2>1, OneRequest DEF CheckEdit, Begin
  <2> QED BY <1>7, <2>2 DEF TypeOK, CheckEdit, caseRow, desk
<1>8. ASSUME NEW r \in Requests, WriteEdit(r) PROVE TypeOK'
  <2>1. data' \in Data
    BY <1>8, RequestKinds DEF WriteEdit, EditRequests
  <2>2. req' \in [Requests -> RequestStates]
    BY <1>0, <1>8 DEF WriteEdit, End
  <2> QED BY <1>8, <2>1, <2>2 DEF TypeOK, WriteEdit, desk
<1>9. ASSUME NEW r \in Requests, AbortRequest(r) PROVE TypeOK'
  <2>1. req' \in [Requests -> RequestStates]
    BY <1>0, <1>9 DEF AbortRequest, End
  <2> QED BY <1>9, <2>1 DEF TypeOK, AbortRequest, caseRow, desk
<1> QED BY <1>1, <1>2, <1>3, <1>4, <1>5, <1>6, <1>7, <1>8, <1>9

\* Every step keeps the types.
LEMMA TypeStep ==
  ASSUME TypeOK, CommitsHold, [Next]_vars
  PROVE  TypeOK'
<1>1. CASE UNCHANGED vars
  BY <1>1 DEF TypeOK, vars
<1>2. CASE Next
  BY <1>2, PrepareTypes, CommitTypes, OtherTypes DEF Next, Receive, Advance
<1> QED BY <1>1, <1>2

-----------------------------------------------------------------------------
(***************************************************************************)
(* What was handed out stays handed out, and is told apart by its id.      *)
(***************************************************************************)

\* Only Issue hands anything to a browser, and it takes an id never used.
LEMMA BrowserStep ==
  ASSUME TypeOK, [Next]_vars
  PROVE  /\ browser \subseteq browser'
         /\ IdsHandedOnce => IdsHandedOnce'
<1>1. CASE \E r \in Requests : Issue(r)
  <2>1. PICK r \in Requests, i \in ChallengeIds \ {b.id : b \in browser} :
          browser' = browser \union
            {[id |-> i, user |-> req[r].user, manifest |-> AllOf(req[r].made)]}
    BY <1>1 DEF Issue
  <2>2. \A b \in browser : b.id # i
    BY <2>1
  <2> QED BY <2>1, <2>2 DEF IdsHandedOnce
<1>2. CASE UNCHANGED browser
  BY <1>2 DEF IdsHandedOnce
<1> QED
  BY <1>1, <1>2 DEF Next, Receive, Advance, vars, desk, Expire, Prepare, RenderDoc, RenderFails,
     Supersede, Commit, FindChallenge, ReadDoc, CheckSignature, Sign, ReportFailure,
     LookForSignature, Discard, ReadForTransition, CommitTransition, CheckEdit, WriteEdit,
     AbortRequest

\* A challenge row is only removed, or marked expired, or written by Issue with
\* what it hands to the browser.
LEMMA ChallengesHandedStep ==
  ASSUME TypeOK, ChallengesHanded, [Next]_vars
  PROVE  ChallengesHanded'
<1> USE SigningAssumption
<1> DEFINE Kept == \A i \in ChallengeIds : challenge'[i] # NoChallenge =>
                     /\ challenge[i] # NoChallenge
                     /\ challenge'[i].user = challenge[i].user
                     /\ challenge'[i].manifest = challenge[i].manifest
<1>0. browser \subseteq browser'
  BY BrowserStep
<1>1. Kept => ChallengesHanded'
  BY <1>0 DEF ChallengesHanded
<1>2. CASE UNCHANGED challenge
  BY <1>1, <1>2
<1>3. CASE \E i \in ChallengeIds : Expire(i)
  <2>1. PICK i \in ChallengeIds : Expire(i)
    BY <1>3
  <2>2. challenge[i] \in Challenges
    BY <2>1 DEF Expire, TypeOK
  <2>3. /\ challenge'[i].user = challenge[i].user
        /\ challenge'[i].manifest = challenge[i].manifest
    BY <2>1, <2>2 DEF Expire, TypeOK, Challenges
  <2>4. \A j \in ChallengeIds : j # i => challenge'[j] = challenge[j]
    BY <2>1 DEF Expire, TypeOK
  <2> QED BY <1>1, <2>1, <2>3, <2>4 DEF Expire
<1>4. CASE \E r \in Requests : Issue(r)
  <2>1. PICK r \in Requests, i \in ChallengeIds :
          /\ challenge' = [challenge EXCEPT ![i] =
               [user |-> req[r].user, manifest |-> AllOf(req[r].made), expired |-> FALSE]]
          /\ browser' = browser \union
               {[id |-> i, user |-> req[r].user, manifest |-> AllOf(req[r].made)]}
    BY <1>4 DEF Issue
  <2>2. ASSUME NEW j \in ChallengeIds, challenge'[j] # NoChallenge
        PROVE  [id |-> j, user |-> challenge'[j].user, manifest |-> challenge'[j].manifest]
                 \in browser'
    <3>1. CASE j = i
      BY <2>1, <3>1 DEF TypeOK
    <3>2. CASE j # i
      BY <1>0, <2>1, <2>2, <3>2 DEF TypeOK, ChallengesHanded
    <3> QED BY <3>1, <3>2
  <2> QED BY <2>2 DEF ChallengesHanded
<1>5. CASE \E r \in Requests :
             \/ Supersede(r) \/ FindChallenge(r) \/ Sign(r)
             \/ \E i \in {b.id : b \in browser} \union {NoChallenge} : ReportFailure(r, i)
  <2>1. \A i \in ChallengeIds : challenge'[i] = challenge[i] \/ challenge'[i] = NoChallenge
    BY <1>5 DEF Supersede, FindChallenge, Sign, ReportFailure, TypeOK
  <2> QED BY <1>1, <2>1
<1> QED
  BY <1>2, <1>3, <1>4, <1>5 DEF Next, Receive, Advance, vars, desk, Prepare, RenderDoc,
     RenderFails, Commit, ReadDoc, CheckSignature, LookForSignature, Discard,
     ReadForTransition, CommitTransition, CheckEdit, WriteEdit, AbortRequest

-----------------------------------------------------------------------------
(***************************************************************************)
(* A commit keeps what it was sent and what it found.                      *)
(***************************************************************************)
CommitSteps == {"find", "read", "check", "sign"}

\* What CommitsHold says of the record of one request.
Holds(s, handed) ==
  /\ s.step \in CommitSteps => s.from \in handed
  /\ s.step \in {"read", "check"} =>
       s.held \in Challenges /\ s.held.manifest = s.from.manifest
  /\ s.step = "sign" => s.docs = s.from.manifest

\* A request that found its challenge holds the manifest its browser was handed.
LEMMA FindHolds ==
  ASSUME TypeOK, ChallengesHanded, IdsHandedOnce, CommitsHold, NEW r \in Requests,
         FindChallenge(r)
  PROVE  Holds(req'[r], browser)
<1>1. /\ req[r] \in CommitRequests
      /\ req[r].from \in browser
      /\ req[r].from.id \in ChallengeIds
  BY RequestKinds DEF FindChallenge, CommitsHold, CommitRequests, Prepared
<1>2. CASE End(r)
  BY <1>2 DEF End, Holds, Idle, CommitSteps, TypeOK
<1>3. CASE /\ challenge[req[r].from.id] # NoChallenge
           /\ req' = [req EXCEPT ![r].step = "read", ![r].held = challenge[req[r].from.id]]
  <2> DEFINE held == challenge[req[r].from.id]
  <2>1. held \in Challenges
    BY <1>1, <1>3 DEF TypeOK
  <2>2. [id |-> req[r].from.id, user |-> held.user, manifest |-> held.manifest] \in browser
    BY <1>1, <1>3 DEF ChallengesHanded
  <2>3. req[r].from = [id |-> req[r].from.id, user |-> held.user, manifest |-> held.manifest]
    BY <1>1, <2>2 DEF IdsHandedOnce
  <2>4. held.manifest = req[r].from.manifest
    BY <2>3
  <2>5. /\ req'[r].step = "read"
        /\ req'[r].held = held
        /\ req'[r].from = req[r].from
    BY <1>1, <1>3 DEF TypeOK, CommitRequests
  <2> QED BY <1>1, <2>1, <2>4, <2>5 DEF Holds, CommitSteps
<1> QED BY <1>2, <1>3 DEF FindChallenge

\* Reading and checking keep what was found, and the digest lets a commit reach
\* the transaction only with the documents of the manifest that was signed.
LEMMA CheckHolds ==
  ASSUME TypeOK, CommitsHold, NEW r \in Requests, ReadDoc(r) \/ CheckSignature(r)
  PROVE  Holds(req'[r], browser)
<1>1. /\ req[r] \in CommitRequests
      /\ req[r].from \in browser
      /\ req[r].held \in Challenges
      /\ req[r].held.manifest = req[r].from.manifest
  BY RequestKinds DEF ReadDoc, CheckSignature, CommitsHold
<1>2. CASE End(r)
  BY <1>2 DEF End, Holds, Idle, CommitSteps, TypeOK
<1>3. CASE ReadDoc(r) /\ ~End(r)
  <2>1. /\ req'[r].step \in {"read", "check"}
        /\ req'[r].from = req[r].from
        /\ req'[r].held = req[r].held
    BY <1>1, <1>3 DEF ReadDoc, TypeOK, CommitRequests
  <2> QED BY <1>1, <2>1 DEF Holds, CommitSteps
<1>4. CASE CheckSignature(r) /\ ~End(r)
  <2>1. /\ req'[r].step = "sign"
        /\ req'[r].from = req[r].from
        /\ req'[r].docs = req[r].docs
    BY <1>1, <1>4 DEF CheckSignature, Goto, TypeOK, CommitRequests
  <2>2. req[r].docs = req[r].from.manifest
    BY <1>1, <1>4 DEF CheckSignature, DigestMatches
  <2> QED BY <1>1, <2>1, <2>2 DEF Holds, CommitSteps
<1> QED BY <1>2, <1>3, <1>4

\* Every step keeps what commits hold, whatever the other requests do meanwhile.
LEMMA CommitsHoldStep ==
  ASSUME TypeOK, ChallengesHanded, IdsHandedOnce, CommitsHold, [Next]_vars
  PROVE  CommitsHold'
<1>0. browser \subseteq browser'
  BY BrowserStep
<1>1. \A q \in Requests : Holds(req[q], browser)
  BY DEF CommitsHold, Holds, CommitSteps
<1>2. SUFFICES ASSUME NEW q \in Requests
               PROVE  Holds(req'[q], browser) \/ Holds(req'[q], browser')
  BY <1>0 DEF CommitsHold, Holds, CommitSteps
<1>3. CASE req'[q] = req[q]
  BY <1>1, <1>3
<1>4. CASE req'[q].step \notin CommitSteps
  BY <1>4 DEF Holds, CommitSteps
<1>5. CASE FindChallenge(q)
  BY <1>5, FindHolds
<1>6. CASE ReadDoc(q) \/ CheckSignature(q)
  BY <1>6, CheckHolds
<1>7. CASE \E b \in browser : Commit(q, b)
  BY <1>7 DEF Commit, Begin, Holds, CommitSteps, TypeOK
<1>8. CASE UNCHANGED req
  BY <1>3, <1>8
<1>9. ASSUME NEW r \in Requests, Receive(r) \/ Advance(r), r # q
      PROVE  req'[q] = req[q]
  BY <1>9 DEF TypeOK, Receive, Advance, Begin, Goto, End, Prepare, RenderDoc, RenderFails,
     Supersede, Issue, Commit, FindChallenge, ReadDoc, CheckSignature, Sign, ReportFailure,
     LookForSignature, Discard, ReadForTransition, CommitTransition, CheckEdit, WriteEdit,
     AbortRequest
<1>10. CASE Receive(q) \/ Advance(q)
  <2>1. CASE \/ \E u \in Directors : Prepare(q, u)
             \/ \E i \in {b.id : b \in browser} \union {NoChallenge} : ReportFailure(q, i)
             \/ ReadForTransition(q)
             \/ \E d \in Data : CheckEdit(q, d)
    BY <1>4, <2>1 DEF Prepare, ReportFailure, ReadForTransition, CheckEdit, Begin, CommitSteps,
       TypeOK
  <2>2. CASE RenderDoc(q)
    <3>1. req[q] \in PrepareRequests
      BY <2>2, RequestKinds DEF RenderDoc
    <3> QED BY <1>4, <2>2, <3>1 DEF RenderDoc, Goto, PrepareRequests, CommitSteps, TypeOK
  <2>3. CASE Supersede(q) \/ LookForSignature(q)
    BY <1>4, <2>3 DEF Supersede, LookForSignature, Goto, End, Idle, CommitSteps, TypeOK,
       RequestStates, PrepareRequests, CommitRequests, FailRequests, TransitionRequests,
       EditRequests
  <2>4. CASE End(q)
    BY <1>4, <2>4 DEF End, Idle, CommitSteps, TypeOK
  <2> QED
    BY <1>5, <1>6, <1>7, <1>10, <2>1, <2>2, <2>3, <2>4 DEF Receive, Advance, RenderFails, Issue,
       Sign, Discard, CommitTransition, WriteEdit, AbortRequest
<1> QED BY <1>3, <1>8, <1>9, <1>10 DEF Next, Expire, vars

\* Only Sign files a signature, with the documents the key signed.
LEMMA CoversStep ==
  ASSUME TypeOK, CommitsHold, SignatureCoversFiled, [Next]_vars
  PROVE  SignatureCoversFiled'
<1>1. CASE UNCHANGED signature
  BY <1>1 DEF SignatureCoversFiled
<1>2. CASE \E r \in Requests : Sign(r)
  <2>1. PICK r \in Requests : Sign(r)
    BY <1>2
  <2>2. req[r].docs = req[r].from.manifest
    BY <2>1 DEF Sign, CommitsHold
  <2>3. CASE CanSign(req[r].from.id)
    <3>1. /\ signature'.pkcs7 = req[r].from.manifest
          /\ signature'.manifest = req[r].docs
      BY <2>1, <2>3 DEF Sign
    <3> QED BY <2>2, <3>1 DEF SignatureCoversFiled
  <2>4. CASE ~CanSign(req[r].from.id)
    BY <1>1, <2>1, <2>4 DEF Sign
  <2> QED BY <2>3, <2>4
<1> QED
  BY <1>1, <1>2 DEF Next, Receive, Advance, vars, desk, Expire, Prepare, RenderDoc, RenderFails,
     Supersede, Issue, Commit, FindChallenge, ReadDoc, CheckSignature, ReportFailure,
     LookForSignature, Discard, ReadForTransition, CommitTransition, CheckEdit, WriteEdit,
     AbortRequest

-----------------------------------------------------------------------------
\* The invariant holds in every reachable state, for any number of requests,
\* directors, challenges and documents.
THEOREM SigningInductive == Spec => []SigningInv
<1>1. Init => SigningInv
  <2> SUFFICES ASSUME Init PROVE SigningInv
    OBVIOUS
  <2>1. TypeOK
    BY FilesWritten DEF Init, TypeOK, RequestStates, Statuses
  <2>2. ChallengesHanded /\ IdsHandedOnce /\ CommitsHold /\ SignatureCoversFiled
    BY DEF Init, ChallengesHanded, IdsHandedOnce, CommitsHold, SignatureCoversFiled, Idle
  <2> QED BY <2>1, <2>2 DEF SigningInv
<1>2. SigningInv /\ [Next]_vars => SigningInv'
  BY TypeStep, BrowserStep, ChallengesHandedStep, CommitsHoldStep, CoversStep DEF SigningInv
<1> QED BY <1>1, <1>2, PTL DEF Spec

\* Types are kept, whatever the interleaving.
THEOREM SigningTypes == Spec => []TypeOK
<1>1. SigningInv => TypeOK
  BY DEF SigningInv
<1> QED BY <1>1, SigningInductive, PTL

\* What is filed as signed is what the director's key signed, whatever other
\* requests did to the files while commit was reading them.
THEOREM FiledIsSigned == Spec => []SignatureCoversFiled
<1>1. SigningInv => SignatureCoversFiled
  BY DEF SigningInv
<1> QED BY <1>1, SigningInductive, PTL

\* The step that files a signature finds none and a challenge that is there.
LEMMA SignatureSteps ==
  ASSUME [Next]_vars, signature' # signature
  PROVE  /\ signature = NoSignature
         /\ \E r \in Requests : /\ signature'.id = req[r].from.id
                                /\ challenge[req[r].from.id] # NoChallenge
<1>1. PICK r \in Requests : Sign(r)
  BY DEF Next, Receive, Advance, vars, desk, Expire, Prepare, RenderDoc, RenderFails,
     Supersede, Issue, Commit, FindChallenge, ReadDoc, CheckSignature, ReportFailure,
     LookForSignature, Discard, ReadForTransition, CommitTransition, CheckEdit, WriteEdit,
     AbortRequest
<1>2. CanSign(req[r].from.id)
  BY <1>1 DEF Sign
<1>3. signature'.id = req[r].from.id
  BY <1>1, <1>2 DEF Sign
<1> QED BY <1>2, <1>3 DEF CanSign

\* A filed signature is never replaced, even by commits at once.
THEOREM SignedOnce == Spec => SignatureIsFinal
<1>1. [Next]_vars => [signature # NoSignature => signature' = signature]_vars
  BY SignatureSteps
<1> QED BY <1>1, PTL DEF Spec, SignatureIsFinal

\* An attempt that was failed, superseded or expired is never completed, even by
\* a commit that had read its challenge before.
THEOREM ClosedAttemptsStayClosed == Spec => ClosedAttemptNeverSigns
<1>1. [Next]_vars =>
        [\A b \in browser : signature = NoSignature /\ challenge[b.id] = NoChallenge
           => signature' = NoSignature \/ signature'.id # b.id]_vars
  BY SignatureSteps
<1> QED BY <1>1, PTL DEF Spec, ClosedAttemptNeverSigns

-----------------------------------------------------------------------------
(***************************************************************************)
(* One request at a time: between the digest and the transaction nothing   *)
(* else touches the files, and nothing is under way once the case is       *)
(* signed but a failure report that will find the signature.               *)
(***************************************************************************)
SignedAtRest ==
  signature # NoSignature =>
    /\ status = "FINALIZED"
    /\ files = signature.manifest
    /\ \A r \in Requests : req[r].step \in {"idle", "look"}

Fresh(s, f) ==
  /\ s.step = "find" => s.next = 1
  /\ s.step = "read" => \A k \in Docs : k < s.next => s.docs[k] = f[k]
  /\ s.step \in {"check", "sign"} => s.docs = f

ReadsFresh == \A r \in Requests : Fresh(req[r], files)

Live(i) == challenge[i] # NoChallenge

LiveOnce ==
  /\ \A i, j \in ChallengeIds : Live(i) /\ Live(j) => i = j
  /\ \A r \in Requests : req[r].step = "issue" => \A i \in ChallengeIds : ~Live(i)

AloneInv == SigningInv /\ Alone /\ SignedAtRest /\ ReadsFresh /\ LiveOnce

\* No rule moves a finalised case.
LEMMA FinalStays ==
  \A rule \in Transitions : rule.from # "FINALIZED"
BY DEF Transitions, Rule

\* A step of a request leaves the others.
LEMMA OthersKept ==
  ASSUME TypeOK, NEW r \in Requests, Receive(r) \/ Advance(r)
  PROVE  \A q \in Requests \ {r} : req'[q] = req[q]
BY DEF TypeOK, Receive, Advance, Begin, Goto, End, Prepare, RenderDoc, RenderFails,
   Supersede, Issue, Commit, FindChallenge, ReadDoc, CheckSignature, Sign, ReportFailure,
   LookForSignature, Discard, ReadForTransition, CommitTransition, CheckEdit, WriteEdit,
   AbortRequest

\* Alone, a request that acts finds the others at rest and leaves them so.
LEMMA OthersRest ==
  ASSUME TypeOK, Alone, Alone', NEW r \in Requests, Receive(r) \/ Advance(r),
         req[r] # Idle \/ req'[r] # Idle
  PROVE  \A q \in Requests \ {r} : req'[q] = req[q] /\ req[q].step = "idle"
BY OthersKept DEF Alone, Idle

\* What the first step of a request leaves.
LEMMA Received ==
  ASSUME TypeOK, NEW r \in Requests, Receive(r)
  PROVE  /\ req[r] = Idle /\ UNCHANGED <<caseRow, files, signature, browser>>
         /\ req'[r].step \in {"render", "find", "look", "move", "edit"}
         /\ req'[r].step = "find" => req'[r].next = 1
         /\ \A i \in ChallengeIds : challenge'[i] = challenge[i] \/ ~Live(i)'
         /\ signature # NoSignature /\ status = "FINALIZED" => req'[r].step = "look"
<1>1. CASE \E u \in Directors : Prepare(r, u)
  BY <1>1, FinalStays DEF Prepare, Begin, TypeOK, caseRow, desk, Signable, FindTransition
<1>2. CASE \E b \in browser : Commit(r, b)
  BY <1>2, FinalStays DEF Commit, Begin, TypeOK, caseRow, desk, Signable, FindTransition
<1>3. CASE \E i \in {b.id : b \in browser} \union {NoChallenge} : ReportFailure(r, i)
  BY <1>3 DEF ReportFailure, Begin, TypeOK, caseRow, Live
<1>4. CASE ReadForTransition(r)
  BY <1>4, FinalStays DEF ReadForTransition, Begin, TypeOK, caseRow, desk
<1>5. CASE \E d \in Data : CheckEdit(r, d)
  BY <1>5 DEF CheckEdit, Begin, TypeOK, caseRow, desk, StepEditable, DisbursementLocked
<1> QED BY <1>1, <1>2, <1>3, <1>4, <1>5 DEF Receive

\* A request that goes on after a signature is a failure report, and it ends.
LEMMA AfterSigned ==
  ASSUME TypeOK, SignedAtRest, signature # NoSignature, NEW r \in Requests, Advance(r)
  PROVE  req'[r] = Idle /\ UNCHANGED <<caseRow, desk>>
<1>1. LookForSignature(r) \/ AbortRequest(r)
  BY DEF SignedAtRest, Advance, RenderDoc, RenderFails, Supersede, Issue, FindChallenge,
         ReadDoc, CheckSignature, Sign, Discard, CommitTransition, WriteEdit
<1> QED BY <1>1 DEF LookForSignature, AbortRequest, Guarded, End, TypeOK

\* The signature finds the files it was checked against, and all other requests at rest.
LEMMA SignedStep ==
  ASSUME TypeOK, Alone, Alone', SignedAtRest, ReadsFresh, Next
  PROVE  SignedAtRest'
<1>1. ASSUME NEW i \in ChallengeIds, Expire(i) PROVE SignedAtRest'
  BY <1>1 DEF Expire, SignedAtRest, caseRow
<1>2. ASSUME NEW r \in Requests, Receive(r) PROVE SignedAtRest'
  <2>1. \A q \in Requests \ {r} : req'[q] = req[q]
    BY <1>2, OthersKept
  <2> QED BY <1>2, <2>1, Received DEF SignedAtRest, caseRow
<1>3. ASSUME NEW r \in Requests, Advance(r), signature # NoSignature PROVE SignedAtRest'
  <2>1. \A q \in Requests \ {r} : req'[q] = req[q]
    BY <1>3, OthersKept
  <2> QED BY <1>3, <2>1, AfterSigned DEF SignedAtRest, caseRow, desk, Idle
<1>4. ASSUME NEW r \in Requests, Sign(r), signature = NoSignature PROVE SignedAtRest'
  <2>1. req[r] # Idle /\ req[r].docs = files
    BY <1>4 DEF Sign, Idle, ReadsFresh, Fresh
  <2>2. \A q \in Requests \ {r} : req'[q] = req[q] /\ req[q].step = "idle"
    BY <1>4, <2>1, OthersRest DEF Advance
  <2>3. req'[r].step = "idle" /\ files' = files
    BY <1>4 DEF Sign, End, TypeOK, Idle
  <2>4. CASE CanSign(req[r].from.id)
    <3>1. status' = "FINALIZED" /\ signature'.manifest = req[r].docs
      BY <1>4, <2>4 DEF Sign
    <3> QED BY <2>1, <2>2, <2>3, <3>1 DEF SignedAtRest
  <2>5. CASE ~CanSign(req[r].from.id)
    BY <1>4, <2>5 DEF Sign, SignedAtRest
  <2> QED BY <2>4, <2>5
<1>5. ASSUME NEW r \in Requests, Advance(r), ~Sign(r), signature = NoSignature
      PROVE  SignedAtRest'
  <2>1. signature' = signature
    BY <1>5 DEF Advance, RenderDoc, RenderFails, Supersede, Issue, FindChallenge, ReadDoc,
       CheckSignature, LookForSignature, Discard, CommitTransition, WriteEdit, AbortRequest, desk
  <2> QED BY <1>5, <2>1 DEF SignedAtRest
<1> QED BY <1>1, <1>2, <1>3, <1>4, <1>5 DEF Next, Advance

\* What a commit has read stays what is there: nothing else is under way.
LEMMA AdvanceFresh ==
  ASSUME TypeOK, ReadsFresh, NEW r \in Requests, Advance(r)
  PROVE  Fresh(req'[r], files')
<1>1. CASE End(r)
  BY <1>1 DEF End, TypeOK, Fresh, Idle
<1>2. CASE RenderDoc(r)
  <2>1. req[r] \in PrepareRequests
    BY <1>2, RequestKinds DEF RenderDoc
  <2>2. req'[r].step \in {"render", "supersede"}
    BY <1>2, <2>1 DEF RenderDoc, Goto, TypeOK, PrepareRequests
  <2> QED BY <2>2 DEF Fresh
<1>3. CASE Supersede(r)
  <2>1. req[r] \in PrepareRequests
    BY <1>3, RequestKinds DEF Supersede
  <2>2. req'[r].step = "issue"
    BY <1>3, <2>1 DEF Supersede, Goto, TypeOK, PrepareRequests
  <2> QED BY <2>2 DEF Fresh
<1>4. CASE LookForSignature(r)
  <2>1. req'[r].step \in {"idle", "discard"}
    BY <1>4 DEF LookForSignature, Goto, End, Idle, TypeOK, RequestStates, PrepareRequests,
       CommitRequests, FailRequests, TransitionRequests, EditRequests
  <2> QED BY <2>1 DEF Fresh
<1>5. CASE FindChallenge(r) /\ ~End(r)
  <2>1. req[r] \in CommitRequests /\ req[r].next = 1
    BY <1>5, RequestKinds DEF FindChallenge, ReadsFresh, Fresh
  <2>2. req'[r].step = "read" /\ req'[r].next = 1
    BY <1>5, <2>1 DEF FindChallenge, TypeOK, CommitRequests
  <2> QED BY <2>2 DEF Fresh, Docs
<1>6. CASE ReadDoc(r) /\ ~End(r)
  <2> DEFINE k == req[r].next
             docs == [req[r].docs EXCEPT ![k] = files[k]]
  <2>1. req[r] \in CommitRequests /\ req[r].step = "read" /\ files \in Files
    BY <1>6, RequestKinds DEF ReadDoc, TypeOK
  <2>2. k \in Docs /\ req[r].docs \in Files
    BY <2>1 DEF CommitRequests
  <2>3. \A j \in Docs : j < k => req[r].docs[j] = files[j]
    BY <2>1 DEF ReadsFresh, Fresh
  <2>4. \A j \in Docs : j <= k => docs[j] = files[j]
    <3>1. docs[k] = files[k] /\ \A j \in Docs \ {k} : docs[j] = req[r].docs[j]
      BY <2>2 DEF Files
    <3>2. \A j \in Docs : j <= k => j = k \/ j < k
      BY <2>2 DEF Docs
    <3> QED BY <2>3, <3>1, <3>2
  <2>5. /\ req'[r].docs = docs
        /\ req'[r].next = IF k = LastDoc THEN k ELSE k + 1
        /\ req'[r].step = IF k = LastDoc THEN "check" ELSE "read"
        /\ files' = files
    BY <1>6, <2>1 DEF ReadDoc, TypeOK, CommitRequests, desk
  <2>6. CASE k = LastDoc
    <3>1. docs = files
      BY <2>1, <2>2, <2>4, <2>6 DEF Files, Docs
    <3> QED BY <2>5, <2>6, <3>1 DEF Fresh
  <2>7. CASE k # LastDoc
    BY <2>2, <2>4, <2>5, <2>7 DEF Fresh, Docs
  <2> QED BY <2>6, <2>7
<1>7. CASE CheckSignature(r) /\ ~End(r)
  <2>1. req[r] \in CommitRequests /\ req[r].docs = files
    BY <1>7, RequestKinds DEF CheckSignature, ReadsFresh, Fresh
  <2>2. req'[r].step = "sign" /\ req'[r].docs = req[r].docs /\ files' = files
    BY <1>7, <2>1 DEF CheckSignature, Goto, TypeOK, CommitRequests, desk
  <2> QED BY <2>1, <2>2 DEF Fresh
<1> QED
  BY <1>1, <1>2, <1>3, <1>4, <1>5, <1>6, <1>7 DEF Advance, RenderFails, Issue, Sign, Discard,
     CommitTransition, WriteEdit, AbortRequest

\* Only requests under way advance.
LEMMA AdvanceBusy ==
  ASSUME NEW r \in Requests, Advance(r)
  PROVE  req[r] # Idle
BY SMTT(20) DEF Idle, Advance, RenderDoc, RenderFails, Supersede, Issue, FindChallenge, ReadDoc,
   CheckSignature, Sign, LookForSignature, Discard, CommitTransition, WriteEdit, AbortRequest

\* Files change under no request that has read them.
LEMMA ReadsStep ==
  ASSUME TypeOK, Alone, Alone', ReadsFresh, Next
  PROVE  ReadsFresh'
<1>1. ASSUME NEW i \in ChallengeIds, Expire(i) PROVE ReadsFresh'
  BY <1>1 DEF Expire, ReadsFresh
<1>2. ASSUME NEW r \in Requests, Receive(r) PROVE ReadsFresh'
  <2>1. \A q \in Requests \ {r} : req'[q] = req[q]
    BY <1>2, OthersKept
  <2>2. files' = files /\ Fresh(req'[r], files')
    BY <1>2, Received DEF Fresh
  <2> QED BY <2>1, <2>2 DEF ReadsFresh
<1>3. ASSUME NEW r \in Requests, Advance(r) PROVE ReadsFresh'
  <2>1. \A q \in Requests \ {r} : req'[q] = req[q] /\ req[q].step = "idle"
    BY <1>3, AdvanceBusy, OthersRest
  <2>2. \A q \in Requests \ {r} : Fresh(req'[q], files')
    BY <2>1 DEF Fresh
  <2> QED BY <1>3, <2>2, AdvanceFresh DEF ReadsFresh
<1> QED BY <1>1, <1>2, <1>3 DEF Next

\* A challenge is issued only when the earlier ones of the case are gone.
LEMMA LiveStep ==
  ASSUME TypeOK, Alone, Alone', LiveOnce, Next
  PROVE  LiveOnce'
<1>1. ASSUME \A i \in ChallengeIds : Live(i)' => Live(i),
             \A r \in Requests : req'[r].step = "issue" =>
               req[r].step = "issue" \/ \A i \in ChallengeIds : ~Live(i)'
      PROVE  LiveOnce'
  BY <1>1 DEF LiveOnce
<1>2. ASSUME NEW i \in ChallengeIds, Expire(i) PROVE LiveOnce'
  BY <1>1, <1>2 DEF Expire, TypeOK, Live
<1>3. ASSUME NEW r \in Requests, Receive(r) PROVE LiveOnce'
  <2>1. \A i \in ChallengeIds : Live(i)' => Live(i)
    BY <1>3, Received DEF Live
  <2>2. req'[r].step # "issue" /\ \A q \in Requests \ {r} : req'[q] = req[q]
    BY <1>3, Received, OthersKept
  <2> QED BY <1>1, <2>1, <2>2
<1>4. ASSUME NEW r \in Requests, Issue(r) PROVE LiveOnce'
  <2>1. \A q \in Requests : req'[q].step = "idle"
    BY <1>4, OthersRest, AdvanceBusy DEF Issue, End, Idle, TypeOK, Advance
  <2>2. PICK j \in ChallengeIds : challenge' = [challenge EXCEPT ![j] =
          [user |-> req[r].user, manifest |-> AllOf(req[r].made), expired |-> FALSE]]
    BY <1>4 DEF Issue
  <2>3. \A i \in ChallengeIds : ~Live(i)
    BY <1>4 DEF Issue, LiveOnce
  <2>4. \A i \in ChallengeIds : Live(i)' => i = j
    BY <2>2, <2>3 DEF TypeOK, Live
  <2> QED BY <2>1, <2>4 DEF LiveOnce
<1>5. ASSUME NEW r \in Requests, Supersede(r) PROVE LiveOnce'
  <2>1. \A i \in ChallengeIds : ~Live(i)'
    BY <1>5 DEF Supersede, Live
  <2> QED BY <1>1, <2>1
<1>6. ASSUME NEW r \in Requests, Advance(r), ~Issue(r), ~Supersede(r) PROVE LiveOnce'
  <2>1. \A i \in ChallengeIds : challenge'[i] = challenge[i] \/ ~Live(i)'
    BY <1>6 DEF Advance, RenderDoc, RenderFails, FindChallenge, ReadDoc, CheckSignature, Sign,
       LookForSignature, Discard, CommitTransition, WriteEdit, AbortRequest, desk, TypeOK, Live
  <2>2. req'[r].step # "issue"
    <3>1. CASE End(r)
      BY <3>1 DEF End, Idle, TypeOK
    <3>2. CASE RenderDoc(r)
      <4>1. req[r] \in PrepareRequests
        BY <3>2, RequestKinds DEF RenderDoc
      <4> QED BY <3>2, <4>1 DEF RenderDoc, Goto, TypeOK, PrepareRequests
    <3>3. CASE FindChallenge(r) \/ ReadDoc(r) \/ CheckSignature(r)
      <4>1. req[r] \in CommitRequests
        BY <3>3, RequestKinds DEF FindChallenge, ReadDoc, CheckSignature
      <4> QED BY <3>3, <4>1 DEF FindChallenge, ReadDoc, CheckSignature, Goto, End, Idle, TypeOK,
                 CommitRequests
    <3>4. CASE LookForSignature(r)
      BY <3>4 DEF LookForSignature, Goto, End, Idle, TypeOK, RequestStates, PrepareRequests,
         CommitRequests, FailRequests, TransitionRequests, EditRequests
    <3> QED BY <1>6, <3>1, <3>2, <3>3, <3>4 DEF Advance, RenderFails, Sign, Discard,
               CommitTransition, WriteEdit, AbortRequest
  <2>3. \A q \in Requests \ {r} : req'[q] = req[q]
    BY <1>6, OthersKept
  <2> QED BY <1>1, <2>1, <2>2, <2>3 DEF Live
<1> QED BY <1>2, <1>3, <1>4, <1>5, <1>6 DEF Next

\* Requests that wait for one another keep the whole invariant.
LEMMA AloneStep ==
  ASSUME AloneInv, [Next]_vars, Alone'
  PROVE  AloneInv'
<1>1. SigningInv'
  BY TypeStep, BrowserStep, ChallengesHandedStep, CommitsHoldStep, CoversStep
  DEF AloneInv, SigningInv
<1>2. CASE UNCHANGED vars
  BY <1>1, <1>2 DEF AloneInv, vars, SignedAtRest, ReadsFresh, LiveOnce, Live
<1>3. CASE Next
  BY <1>1, <1>3, SignedStep, ReadsStep, LiveStep DEF AloneInv, SigningInv
<1> QED BY <1>2, <1>3

\* The case starts at the director's desk with nothing under way.
LEMMA AloneStart == Init => AloneInv
<1> SUFFICES ASSUME Init PROVE AloneInv
  OBVIOUS
<1>1. SigningInv
  <2>1. TypeOK
    BY FilesWritten DEF Init, TypeOK, RequestStates, Statuses
  <2> QED BY <2>1 DEF Init, SigningInv, ChallengesHanded, IdsHandedOnce, CommitsHold,
             SignatureCoversFiled, Idle
<1>2. Alone /\ SignedAtRest /\ ReadsFresh /\ LiveOnce
  BY DEF Init, Alone, SignedAtRest, ReadsFresh, Fresh, LiveOnce, Live, Idle
<1> QED BY <1>1, <1>2 DEF AloneInv

\* In the mode where requests wait for one another, the invariant holds throughout.
THEOREM AloneInductive == MCSpec => [](serial => AloneInv)
<1> DEFINE Inv == serial => AloneInv
<1>1. MCInit => Inv
  BY AloneStart DEF MCInit
<1>2. Inv /\ [MCNext]_<<vars, serial>> => Inv'
  <2> SUFFICES ASSUME Inv, [MCNext]_<<vars, serial>>, serial' PROVE AloneInv'
    OBVIOUS
  <2>1. serial /\ AloneInv
    BY DEF MCNext
  <2>2. CASE UNCHANGED <<vars, serial>>
    <3>1. Alone'
      BY <2>1, <2>2 DEF AloneInv, Alone, vars
    <3> QED BY <2>1, <2>2, <3>1, AloneStep
  <2>3. CASE MCNext
    BY <2>1, <2>3, AloneStep DEF MCNext
  <2> QED BY <2>2, <2>3
<1> QED BY <1>1, <1>2, PTL DEF MCSpec

\* One request at a time, the issued documents are the ones the key signed.
THEOREM IssuedAlone == MCSpec => []IssuedFilesAreSignedAlone
<1>1. (serial => AloneInv) => IssuedFilesAreSignedAlone
  BY DEF AloneInv, SignedAtRest, IssuedFilesAreSignedAlone, IssuedFilesAreSigned
<1> QED BY <1>1, AloneInductive, PTL

\* One request at a time, a case has at most one attempt that can still be completed.
THEOREM OneAttemptAlone == MCSpec => []OneLiveAttemptAlone
<1>1. (serial => AloneInv) => OneLiveAttemptAlone
  <2> SUFFICES ASSUME AloneInv PROVE OneLiveAttempt
    BY DEF OneLiveAttemptAlone
  <2> DEFINE S == {i \in ChallengeIds : challenge[i] # NoChallenge}
  <2>1. \A i, j \in S : i = j
    BY DEF AloneInv, LiveOnce, Live
  <2>2. CASE S = {}
    BY <2>2, FS_EmptySet DEF OneLiveAttempt
  <2>3. CASE S # {}
    <3>1. PICK i : S = {i}
      BY <2>1, <2>3
    <3>2. Cardinality(S) = 1
      BY <3>1, FS_Singleton
    <3> QED BY <3>2 DEF OneLiveAttempt
  <2> QED BY <2>2, <2>3
<1> QED BY <1>1, AloneInductive, PTL

\* One request at a time, a signed case is final and what it prints stays: the
\* lock that saveDisbursement and the other edits check finds the signature.
THEOREM LockedAlone == MCSpec => SignedCaseIsLockedAlone
<1>1. (serial => AloneInv) /\ (serial => AloneInv)' /\ [MCNext]_<<vars, serial>> =>
        [serial /\ signature # NoSignature
           => status' = "FINALIZED" /\ data' = data]_<<vars, serial>>
  <2> SUFFICES ASSUME AloneInv, Next, signature # NoSignature
               PROVE  status' = "FINALIZED" /\ data' = data
    BY DEF MCNext
  <2>1. TypeOK /\ SignedAtRest /\ status = "FINALIZED"
    BY DEF AloneInv, SigningInv, SignedAtRest
  <2>2. UNCHANGED caseRow
    <3>1. ASSUME NEW i \in ChallengeIds, Expire(i) PROVE UNCHANGED caseRow
      BY <3>1 DEF Expire
    <3>2. ASSUME NEW r \in Requests, Receive(r) PROVE UNCHANGED caseRow
      BY <2>1, <3>2, Received
    <3>3. ASSUME NEW r \in Requests, Advance(r) PROVE UNCHANGED caseRow
      BY <2>1, <3>3, AfterSigned
    <3> QED BY <3>1, <3>2, <3>3 DEF Next
  <2> QED BY <2>1, <2>2 DEF caseRow
<1> QED BY <1>1, AloneInductive, PTL DEF MCSpec, SignedCaseIsLockedAlone
=============================================================================
