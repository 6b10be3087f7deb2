------------------------------ MODULE MCSigning ------------------------------
(***************************************************************************)
(* An instance of Signing in two modes: one request at a time with two     *)
(* directors and renderings that differ, and two requests at once of one   *)
(* director.  Requests and challenge ids may be exchanged.                 *)
(***************************************************************************)
EXTENDS Signing, TLC

VARIABLE serial   \* requests wait for one another

MCInit == Init /\ serial \in BOOLEAN

\* At most one request is in flight.
Alone == \A r, s \in Requests : req[r] # Idle /\ req[s] # Idle => r = s

Only(S) == CHOOSE x \in S : TRUE

MCNext ==
  /\ Next
  /\ UNCHANGED serial
  /\ serial => Alone'
  /\ \A r \in Requests :
       ~serial /\ req'[r].step = "render" =>
            req'[r].user = Only(Directors) /\ req'[r].made.stamp = Only(Stamps)

MCSpec == MCInit /\ [][MCNext]_<<vars, serial>>

Symmetry == Permutations(Requests) \union Permutations(ChallengeIds)

\* One request at a time: the issued files are the signed ones (SignedDocsStore).
IssuedFilesAreSignedAlone == serial => IssuedFilesAreSigned

\* One request at a time: one live attempt per case (prepare's deleteMany).
OneLiveAttemptAlone == serial => OneLiveAttempt

\* One request at a time: a signed case is final, what it prints stays (saveDisbursement's lock).
SignedCaseIsLockedAlone ==
  [][serial /\ signature # NoSignature => status' = "FINALIZED" /\ data' = data]_<<vars, serial>>
=============================================================================
