------------------------------- MODULE Signing -------------------------------
(***************************************************************************)
(* The director's signature on one case: SigningService (prepare, commit,  *)
(* fail), the frozen files of SignedDocsStore, the challenge and signature *)
(* rows, the document download, and everything that may change the case    *)
(* meanwhile: plain transitions and the edits each step of the workflow    *)
(* allows.  Cases share nothing here (a challenge of another case is       *)
(* refused, files lie in a directory per case), so one case is modelled.   *)
(*                                                                         *)
(* As in CaseLifecycle, a request is a process that keeps what it read:    *)
(* one action per database or file call whose outcome another request can  *)
(* change.  A refused request changes nothing and is not a step.           *)
(***************************************************************************)
EXTENDS Workflow, Naturals, FiniteSets

CONSTANTS
  Directors,     \* accounts with the DIRECTOR role
  Data,          \* values of the case columns the documents print
  Stamps,        \* creation stamps that tell apart two renderings of the same data
  LastDoc,       \* the documents of DOC_REGISTRY are 1..LastDoc, in its order
  ChallengeIds,  \* ids a challenge row may get (bound: prepares that finish)
  Requests,      \* requests the server may be handling at the same time
  NoFile, NoChallenge, NoSignature

Docs == 1..LastDoc

\* The bytes of a rendered document, as far as a digest tells them apart.
Renderings == [data : Data, stamp : Stamps]

Files == [Docs -> Renderings \union {NoFile}]

\* A manifest names every document with its digest.
Manifests == [Docs -> Renderings]

\* The manifest of a set rendered in one go.
AllOf(rendering) == [k \in Docs |-> rendering]

\* expired says that the ten minutes of CHALLENGE_TTL_MS are over.
Challenges == [user : Directors, manifest : Manifests, expired : BOOLEAN]

\* What prepare returned to a director's browser, to be signed with the key.
Prepared == [id : ChallengeIds, user : Directors, manifest : Manifests]

\* pkcs7 is the manifest the key signed, manifest the one filed beside it.
Signatures == [id : ChallengeIds, user : Directors, pkcs7 : Manifests, manifest : Manifests]

ASSUME SigningAssumption ==
  /\ LastDoc \in Nat \ {0}
  /\ NoFile \notin Renderings
  /\ NoChallenge \notin Challenges \union ChallengeIds
  /\ NoSignature \notin Signatures

VARIABLES
  status,     \* the case's status
  data,       \* what the documents of the case would print now
  files,      \* the frozen files on disk
  challenge,  \* challenge[i]: the challenge row i
  signature,  \* the signature row of the case
  browser,    \* what directors were handed to sign
  req         \* req[r]: what request r keeps between two awaits

vars == <<status, data, files, challenge, signature, browser, req>>

\* The row of the case; the signing side; they are written by different requests.
caseRow == <<status, data>>
desk == <<files, challenge, signature, browser>>

Idle == [step |-> "idle"]

PrepareRequests ==
  [step : {"render", "supersede", "issue"}, user : Directors, made : Renderings, next : Docs]

CommitRequests ==
  [step : {"find", "read", "check", "sign"}, from : Prepared,
   held : Challenges \union {NoChallenge}, next : Docs, docs : Files]

FailRequests == [step : {"look", "discard"}]

TransitionRequests == [step : {"move"}, to : Statuses]

EditRequests == [step : {"edit"}, data : Data]

RequestStates == {Idle} \union PrepareRequests \union CommitRequests \union FailRequests
                 \union TransitionRequests \union EditRequests

NoFiles == [k \in Docs |-> NoFile]

Begin(r, state) == req[r] = Idle /\ req' = [req EXCEPT ![r] = state]

Goto(r, step) == req' = [req EXCEPT ![r].step = step]

End(r) == req' = [req EXCEPT ![r] = Idle]

Init ==
  /\ status = "DIRECTOR_REVIEW"
  /\ data \in Data
  /\ files = NoFiles
  /\ challenge = [i \in ChallengeIds |-> NoChallenge]
  /\ signature = NoSignature
  /\ browser = {}
  /\ req = [r \in Requests |-> Idle]

\* loadSignable: the director's approval must lead to FINALIZED from here.
Signable ==
  \E rule \in FindTransition(status, "DIRECTOR", "APPROVE") : rule.to = "FINALIZED"

-----------------------------------------------------------------------------
(***************************************************************************)
(* prepare: read the case once, render and write each document, replace    *)
(* the challenges of the case by a new one, answer the browser.            *)
(***************************************************************************)
Prepare(r, u) ==
  /\ Signable
  /\ \E stamp \in Stamps :
       Begin(r, [step |-> "render", user |-> u, next |-> 1,
                 made |-> [data |-> data, stamp |-> stamp]])
  /\ UNCHANGED <<caseRow, desk>>

RenderDoc(r) ==
  /\ req[r].step = "render"
  /\ files' = [files EXCEPT ![req[r].next] = req[r].made]
  /\ IF req[r].next = LastDoc
     THEN Goto(r, "supersede")
     ELSE req' = [req EXCEPT ![r].next = @ + 1]
  /\ UNCHANGED <<caseRow, challenge, signature, browser>>

\* A template, the renderer or the disk fails: the whole set is removed.
RenderFails(r) ==
  /\ req[r].step = "render"
  /\ files' = NoFiles
  /\ End(r)
  /\ UNCHANGED <<caseRow, challenge, signature, browser>>

Supersede(r) ==
  /\ req[r].step = "supersede"
  /\ challenge' = [i \in ChallengeIds |-> NoChallenge]
  /\ Goto(r, "issue")
  /\ UNCHANGED <<caseRow, files, signature, browser>>

\* The create; the answer carries the id and the manifest to the browser.
Issue(r) ==
  /\ req[r].step = "issue"
  /\ \E i \in ChallengeIds \ {b.id : b \in browser} :
       /\ challenge' = [challenge EXCEPT ![i] =
            [user |-> req[r].user, manifest |-> AllOf(req[r].made), expired |-> FALSE]]
       /\ browser' = browser \union
            {[id |-> i, user |-> req[r].user, manifest |-> AllOf(req[r].made)]}
  /\ End(r)
  /\ UNCHANGED <<caseRow, files, signature>>

\* Ten minutes pass.
Expire(i) ==
  /\ challenge[i] # NoChallenge
  /\ ~challenge[i].expired
  /\ challenge' = [challenge EXCEPT ![i].expired = TRUE]
  /\ UNCHANGED <<caseRow, files, signature, browser, req>>

-----------------------------------------------------------------------------
(***************************************************************************)
(* commit: the status check, the challenge, the files one by one, the      *)
(* signature row and the digest, and the transaction.  The key and the     *)
(* pkcs7 are good: a bad one is refused before anything is read or kept.   *)
(***************************************************************************)
Commit(r, b) ==
  /\ Signable
  /\ Begin(r, [step |-> "find", from |-> b, held |-> NoChallenge, next |-> 1,
               docs |-> NoFiles])
  /\ UNCHANGED <<caseRow, desk>>

FindChallenge(r) ==
  /\ req[r].step = "find"
  /\ LET i     == req[r].from.id
         found == challenge[i] # NoChallenge /\ challenge[i].user = req[r].from.user
     IN  \/ /\ found /\ ~challenge[i].expired
            /\ req' = [req EXCEPT ![r].step = "read", ![r].held = challenge[i]]
            /\ UNCHANGED challenge
         \/ /\ ~found
            /\ End(r)
            /\ UNCHANGED challenge
         \/ /\ found /\ challenge[i].expired
            /\ End(r)
            /\ challenge' = [challenge EXCEPT ![i] = NoChallenge]
  /\ UNCHANGED <<caseRow, files, signature, browser>>

ReadDoc(r) ==
  /\ req[r].step = "read"
  /\ LET k == req[r].next
     IN  IF files[k] = NoFile
         THEN End(r)
         ELSE req' = [req EXCEPT ![r].docs[k] = files[k],
                                 ![r].next = IF k = LastDoc THEN k ELSE k + 1,
                                 ![r].step = IF k = LastDoc THEN "check" ELSE "read"]
  /\ UNCHANGED <<caseRow, desk>>

\* Mutant of DigestMatches: the files are not compared with the challenge.
DigestMatchesAny(docs, held) == TRUE

\* The manifest rebuilt from the files hashes to what the challenge was issued for.
DigestMatches(docs, held) == docs = held.manifest

CheckSignature(r) ==
  /\ req[r].step = "check"
  /\ IF signature = NoSignature /\ DigestMatches(req[r].docs, req[r].held)
     THEN Goto(r, "sign")
     ELSE End(r)
  /\ UNCHANGED <<caseRow, desk>>

\* Mutants of CanSign: the challenge need not be there any more; the signature
\* row is written over the one there is.
CanSignDropped(i) == signature = NoSignature

CanSignAgain(i) == challenge[i] # NoChallenge

\* The transaction fails on the unique signature and on a challenge that is gone.
CanSign(i) == signature = NoSignature /\ challenge[i] # NoChallenge

Sign(r) ==
  /\ req[r].step = "sign"
  /\ LET b == req[r].from
     IN  IF CanSign(b.id)
         THEN /\ status' = "FINALIZED"
              /\ signature' = [id |-> b.id, user |-> b.user, pkcs7 |-> b.manifest,
                               manifest |-> req[r].docs]
              /\ challenge' = [challenge EXCEPT ![b.id] = NoChallenge]
         ELSE UNCHANGED <<status, signature, challenge>>
  /\ End(r)
  /\ UNCHANGED <<data, files, browser>>

-----------------------------------------------------------------------------
(***************************************************************************)
(* fail: the browser reports that an attempt of its own did not work, with *)
(* the challenge it was handed, if any.  Any account may call it, in any   *)
(* status; a commit that timed out in the browser may still be running.    *)
(***************************************************************************)
ReportFailure(r, i) ==
  /\ Begin(r, [step |-> "look"])
  /\ challenge' = [j \in ChallengeIds |-> IF j = i THEN NoChallenge ELSE challenge[j]]
  /\ UNCHANGED <<caseRow, files, signature, browser>>

\* Mutant of Guarded: the files go without looking for a signature.
GuardedNever == FALSE

\* An already-signed case's files are the issued documents.
Guarded == signature # NoSignature

LookForSignature(r) ==
  /\ req[r].step = "look"
  /\ IF Guarded THEN End(r) ELSE Goto(r, "discard")
  /\ UNCHANGED <<caseRow, desk>>

Discard(r) ==
  /\ req[r].step = "discard"
  /\ files' = NoFiles
  /\ End(r)
  /\ UNCHANGED <<caseRow, challenge, signature, browser>>

-----------------------------------------------------------------------------
(***************************************************************************)
(* What else happens to the case: CreditCasesService.transition with any   *)
(* rule of the table, and the edits of its sections, by status.            *)
(***************************************************************************)
ReadForTransition(r) ==
  /\ \E rule \in Transitions :
       rule.from = status /\ Begin(r, [step |-> "move", to |-> rule.to])
  /\ UNCHANGED <<caseRow, desk>>

CommitTransition(r) ==
  /\ req[r].step = "move"
  /\ status' = req[r].to
  /\ End(r)
  /\ UNCHANGED <<data, desk>>

\* Mutant of DisbursementLocked: the lock forgets the finalised status.
DisbursementLockedLate == status \in {"REJECTED", "CANCELLED"}

\* saveDisbursement: locked once the director has signed or the case is closed.
DisbursementLocked == signature # NoSignature \/ status \in TerminalStatuses

\* applyUpdate in DRAFT, setRate in MODERATION, setSplit in DIRECTOR_REVIEW.
StepEditable == status \in {"DRAFT", "MODERATION", "DIRECTOR_REVIEW"}

CheckEdit(r, d) ==
  /\ StepEditable \/ ~DisbursementLocked
  /\ Begin(r, [step |-> "edit", data |-> d])
  /\ UNCHANGED <<caseRow, desk>>

\* The documents print the credit line's total; the case amount that setSplit
\* writes after it only stands in for a total that is null.
WriteEdit(r) ==
  /\ req[r].step = "edit"
  /\ data' = req[r].data
  /\ End(r)
  /\ UNCHANGED <<status, desk>>

\* The process dies, or a database or file call fails: what was written stays.
AbortRequest(r) ==
  /\ req[r] # Idle
  /\ End(r)
  /\ UNCHANGED <<caseRow, desk>>

-----------------------------------------------------------------------------
Receive(r) ==
  \/ \E u \in Directors : Prepare(r, u)
  \/ \E b \in browser : Commit(r, b)
  \/ \E i \in {b.id : b \in browser} \union {NoChallenge} : ReportFailure(r, i)
  \/ ReadForTransition(r)
  \/ \E d \in Data : CheckEdit(r, d)

Advance(r) ==
  \/ RenderDoc(r)
  \/ RenderFails(r)
  \/ Supersede(r)
  \/ Issue(r)
  \/ FindChallenge(r)
  \/ ReadDoc(r)
  \/ CheckSignature(r)
  \/ Sign(r)
  \/ LookForSignature(r)
  \/ Discard(r)
  \/ CommitTransition(r)
  \/ WriteEdit(r)
  \/ AbortRequest(r)

Next ==
  \/ \E i \in ChallengeIds : Expire(i)
  \/ \E r \in Requests : Receive(r) \/ Advance(r)

Spec == Init /\ [][Next]_vars

-----------------------------------------------------------------------------
(***************************************************************************)
(* Properties that hold whatever the interleaving.                         *)
(***************************************************************************)

\* Every variable keeps its type.
TypeOK ==
  /\ status \in Statuses
  /\ data \in Data
  /\ files \in Files
  /\ challenge \in [ChallengeIds -> Challenges \union {NoChallenge}]
  /\ signature \in Signatures \union {NoSignature}
  /\ browser \subseteq Prepared
  /\ req \in [Requests -> RequestStates]

\* What is filed as signed is what the director's key signed: whatever other
\* prepares, failures and edits do to the files, commit never files a manifest
\* of bytes nobody signed (the comment on commit).
SignatureCoversFiled ==
  signature # NoSignature => signature.pkcs7 = signature.manifest

\* A signature is filed once and never replaced, even by commits at once (the
\* unique constraint behind the race guard in commit).
SignatureIsFinal ==
  [][signature # NoSignature => signature' = signature]_vars

\* An attempt whose challenge is gone (failed, superseded or expired) is never
\* completed, even by a commit that had already read the challenge.
ClosedAttemptNeverSigns ==
  [][\A b \in browser :
       signature = NoSignature /\ challenge[b.id] = NoChallenge
         => signature' = NoSignature \/ signature'.id # b.id]_vars

(***************************************************************************)
(* The inductive invariant behind them.                                    *)
(***************************************************************************)

\* A challenge row holds what some browser was handed under its id.
ChallengesHanded ==
  \A i \in ChallengeIds : challenge[i] # NoChallenge =>
    [id |-> i, user |-> challenge[i].user, manifest |-> challenge[i].manifest] \in browser

\* An id is handed out once.
IdsHandedOnce ==
  \A b, c \in browser : b.id = c.id => b = c

\* A commit holds the challenge of the manifest that was signed, and gets to the
\* transaction only with the documents of that manifest.
CommitsHold ==
  \A r \in Requests :
    /\ req[r].step \in {"find", "read", "check", "sign"} => req[r].from \in browser
    /\ req[r].step \in {"read", "check"} =>
         req[r].held \in Challenges /\ req[r].held.manifest = req[r].from.manifest
    /\ req[r].step = "sign" => req[r].docs = req[r].from.manifest

SigningInv ==
  /\ TypeOK /\ ChallengesHanded /\ IdsHandedOnce /\ CommitsHold
  /\ SignatureCoversFiled

(***************************************************************************)
(* Properties of the handlers one at a time: they hold with one request in *)
(* flight; the runs with two show which of them the interleaving breaks.   *)
(***************************************************************************)

\* The issued documents are the signed ones: once there is a signature, the
\* frozen files are the files of its manifest (the comment on SignedDocsStore).
IssuedFilesAreSigned ==
  signature # NoSignature => files = signature.manifest

\* A signed case is final, and what its documents print stays in the database
\* as it was when the director signed.
SignedCaseIsLocked ==
  [][signature # NoSignature => status' = "FINALIZED" /\ data' = data]_vars

\* One live attempt per case (the comment on prepare's deleteMany).
OneLiveAttempt ==
  Cardinality({i \in ChallengeIds : challenge[i] # NoChallenge}) <= 1

(***************************************************************************)
(* Properties the source claims and its code does not keep.                *)
(***************************************************************************)

\* The issued documents say what the database says (the comment on
\* saveDisbursement's lock).
IssuedMatchesDatabase ==
  signature # NoSignature => \A k \in Docs : signature.manifest[k].data = data

\* getPdf hands out a frozen file as the document of the case.
ServedFrozen(k) == status # "DRAFT" /\ files[k] # NoFile

\* A frozen file is handed out only when the case is signed (the signing design).
FrozenServedIsSigned ==
  \A k \in Docs : ServedFrozen(k) => signature # NoSignature

\* A frozen but unsigned set is not left lying in the store: with no request
\* running and no challenge to complete, there is none (SignedDocsStore.removeAll).
NoneLeftLying ==
  /\ signature = NoSignature
  /\ \A r \in Requests : req[r] = Idle
  /\ \A i \in ChallengeIds : challenge[i] # NoChallenge => challenge[i].expired
  => files = NoFiles

\* verify: the public page confirms a case that has a signature and is not
\* deleted, and this module deletes none.
Verifies == signature # NoSignature

\* A cancelled case does not verify (VerifyController: a revoked case must stop
\* verifying at once).
CancelledStopsVerifying ==
  status = "CANCELLED" => ~Verifies

\* The director's approval is a signature (CaseView): a finalised case has one.
FinalizedIsSigned ==
  status = "FINALIZED" => signature # NoSignature
=============================================================================
