------------------------------ MODULE SignDialog ------------------------------
(***************************************************************************)
(* The director's signing dialog (components/SignDialog.tsx) between the   *)
(* server and the E-IMZO program on the director's machine (lib/eimzo.ts). *)
(* The dialog probes for keys, then walks preparing, unlocking, signing    *)
(* and saving; every call of it may fail, and one to E-IMZO is given up    *)
(* after CALL_TIMEOUT_MS while the program's password window stays open.   *)
(* The server is taken at its answers; Signing has its inner steps.        *)
(***************************************************************************)
EXTENDS Naturals, FiniteSets

CONSTANTS
  Keys,        \* keys E-IMZO may find on the machine
  FirmKeys,    \* those whose certificate carries the INN of the organisation
  Probes,      \* calls of probe that may be under way at once
  MaxTries,    \* bound: how often Sign is pressed
  MaxProbes,   \* bound: how often the dialog probes
  NoKey, NoStep

DialogAssumption ==
  /\ FirmKeys \subseteq Keys /\ NoKey \notin Keys
  /\ NoStep \notin {"preparing", "unlocking", "signing", "saving"}
  /\ MaxTries \in Nat /\ MaxProbes \in Nat

VARIABLES
  program,    \* E-IMZO: "off", "denied" (the site has no API-KEY) or "on"
  windows,    \* attempts whose password window is open
  unlocked,   \* attempts whose key E-IMZO holds unlocked (keyId)
  unloading,  \* unload_key calls on their way
  stray,      \* keyIds the page never got, or could not unload
  open,       \* the dialog is shown
  status, keys, alias, required,
  probe,      \* what each call of probe awaits, with the requirement it got
  step,       \* NoStep: no attempt is running
  try,        \* number of the attempt, its key and what it has got so far
  tries, probed,
  signed,     \* key of the filed signature
  live,       \* challenge of the case, by the attempt it was made for; 0: none
  reports     \* challenge ids of signError calls on their way; 0: null

vars == <<program, windows, unlocked, unloading, stray, open, status, keys, alias, required,
          probe, step, try, tries, probed, signed, live, reports>>

eimzo == <<program, windows, unlocked, unloading, stray>>
picker == <<open, status, keys, alias, required, probe, probed>>
server == <<signed, live, reports>>

Quiet == [at |-> "none", inn |-> FALSE]
NoTry == [key |-> NoKey, challenge |-> 0, keyId |-> 0]

Init ==
  /\ program \in {"off", "denied", "on"}
  /\ windows = {} /\ unlocked = {} /\ unloading = {} /\ stray = {}
  /\ open = FALSE /\ status = "checking" /\ keys = {} /\ alias = NoKey
  /\ required = FALSE
  /\ probe = [p \in Probes |-> Quiet]
  /\ step = NoStep /\ try = NoTry
  /\ tries = 0 /\ probed = 0
  /\ signed = NoKey /\ live = 0 /\ reports = {}

Usable(found, inn) == IF inn THEN found \intersect FirmKeys ELSE found

-----------------------------------------------------------------------------
(***************************************************************************)
(* The picker.                                                             *)
(***************************************************************************)
StartProbe ==
  /\ probed < MaxProbes /\ probed' = probed + 1
  /\ \E p \in Probes : probe[p] = Quiet /\ probe' = [probe EXCEPT ![p].at = "requirement"]
  /\ status' = "checking"
  /\ UNCHANGED <<keys, alias, required, step, try, tries>>

OpenDialog == ~open /\ open' = TRUE /\ StartProbe /\ UNCHANGED <<eimzo, server>>

\* "Qayta tekshirish": offered when there is nothing to sign with.
Recheck ==
  /\ open /\ step = NoStep
  /\ status = "not-running" \/ (status = "ready" /\ Usable(keys, required) = {})
  /\ StartProbe /\ UNCHANGED <<open, eimzo, server>>

\* Bekor, the cross, Escape and the backdrop do nothing while an attempt runs.
CloseDialog ==
  /\ open /\ step = NoStep
  /\ open' = FALSE
  /\ UNCHANGED <<status, keys, alias, required, probe, probed, eimzo, step, try, tries, server>>

\* The INN the key must carry; a failing request counts as none.
GetRequirement(p) ==
  /\ probe[p].at = "requirement"
  /\ \E inn \in BOOLEAN :
       /\ required' = inn
       /\ probe' = [probe EXCEPT ![p] = [at |-> "list", inn |-> inn]]
  /\ UNCHANGED <<open, status, keys, alias, probed, eimzo, step, try, tries, server>>

ListKeys(p) ==
  /\ probe[p].at = "list"
  /\ probe' = [probe EXCEPT ![p] = Quiet]
  /\ \/ status' = "not-running" /\ UNCHANGED <<keys, alias>>   \* no answer, or E-IMZO is off
     \/ program = "denied" /\ status' = "domain-denied" /\ UNCHANGED <<keys, alias>>
     \/ /\ program = "on" /\ status' = "ready"
        /\ \E found \in SUBSET Keys :
             LET usable == Usable(found, probe[p].inn) IN
             /\ keys' = found
             /\ alias' \in IF Cardinality(usable) = 1 THEN usable ELSE {NoKey}
  /\ UNCHANGED <<open, required, probed, eimzo, step, try, tries, server>>

ChooseKey ==
  /\ open /\ step = NoStep /\ status = "ready"
  /\ alias' \in Usable(keys, required)
  /\ UNCHANGED <<open, status, keys, required, probe, probed, eimzo, step, try, tries, server>>

-----------------------------------------------------------------------------
(***************************************************************************)
(* An attempt.                                                             *)
(***************************************************************************)
Sign ==
  /\ open /\ step = NoStep /\ status = "ready" /\ alias \in keys
  /\ tries < MaxTries /\ tries' = tries + 1
  /\ step' = "preparing"
  /\ try' = [NoTry EXCEPT !.key = alias]
  /\ UNCHANGED <<picker, eimzo, server>>

\* Mutant of Unload: the key is kept for the next attempt.
Keyless(keyId) == {}

\* finally: the key is given back, in success and in failure.
Unload(keyId) == IF keyId = 0 THEN {} ELSE {keyId}

\* catch and finally: the failure is reported with the challenge it had got.
GiveUp(challenge) ==
  /\ step' = NoStep
  /\ try' = NoTry
  /\ reports' = reports \union {challenge}
  /\ unloading' = unloading \union Unload(try.keyId)

\* signPrepare: the challenge of the attempt replaces any other of the case.
Prepare ==
  /\ step = "preparing"
  /\ \/ /\ signed = NoKey
        /\ live' = tries /\ try' = [try EXCEPT !.challenge = tries]
        /\ step' = "unlocking" /\ windows' = windows \union {tries}
        /\ UNCHANGED <<reports, unloading>>
     \/ /\ live' \in {live} \union (IF signed = NoKey THEN {tries} ELSE {})
        /\ GiveUp(0) /\ UNCHANGED windows
  /\ UNCHANGED <<picker, program, unlocked, stray, tries, signed>>

\* The password is typed into E-IMZO's window, perhaps after the page gave up.
TypePassword(n) ==
  /\ n \in windows
  /\ windows' = windows \ {n}
  /\ unlocked' = unlocked \union {n}
  /\ IF step = "unlocking" /\ tries = n
     THEN /\ step' = "signing" /\ try' = [try EXCEPT !.keyId = n]
          /\ UNCHANGED stray
     ELSE stray' = stray \union {n} /\ UNCHANGED <<step, try>>
  /\ UNCHANGED <<picker, program, unloading, tries, server>>

\* The window is closed, the password is wrong, or the key cannot be read.
CancelPassword(n) ==
  /\ n \in windows
  /\ windows' = windows \ {n}
  /\ IF step = "unlocking" /\ tries = n
     THEN GiveUp(try.challenge)
     ELSE UNCHANGED <<step, try, reports, unloading>>
  /\ UNCHANGED <<picker, program, unlocked, stray, tries, signed, live>>

\* Mutant of GiveUpWaiting: the call waits for as long as its window is open.
GiveUpWhenClosed ==
  /\ step = "unlocking" /\ tries \notin windows
  /\ GiveUp(try.challenge)
  /\ UNCHANGED <<picker, program, windows, unlocked, stray, tries, signed, live>>

\* CALL_TIMEOUT_MS, or the socket breaks: the window is not taken back.
GiveUpWaiting ==
  /\ step = "unlocking"
  /\ GiveUp(try.challenge)
  /\ UNCHANGED <<picker, program, windows, unlocked, stray, tries, signed, live>>

CreatePkcs7 ==
  /\ step = "signing"
  /\ \/ try.keyId \in unlocked /\ step' = "saving" /\ UNCHANGED <<try, reports, unloading>>
     \/ GiveUp(try.challenge)
  /\ UNCHANGED <<picker, program, windows, unlocked, stray, tries, signed, live>>

\* What the server accepts: the firm's key, the live challenge, a case not signed yet.
Acceptable(key, challenge) == key \in FirmKeys /\ challenge = live /\ signed = NoKey

\* signCommit is answered, refused, or its answer is lost.
Commit ==
  /\ step = "saving"
  /\ \/ /\ Acceptable(try.key, try.challenge)
        /\ signed' = try.key /\ live' = 0
        /\ \/ /\ step' = NoStep /\ try' = NoTry /\ open' = FALSE     \* onSigned
              /\ unloading' = unloading \union Unload(try.keyId)
              /\ UNCHANGED reports
           \/ GiveUp(try.challenge) /\ UNCHANGED open
     \/ GiveUp(try.challenge) /\ UNCHANGED <<signed, live, open>>
  /\ UNCHANGED <<status, keys, alias, required, probe, probed, program, windows, unlocked,
                 stray, tries>>

-----------------------------------------------------------------------------
Report(challenge) ==
  /\ challenge \in reports
  /\ reports' = reports \ {challenge}
  /\ live' \in {live, IF live = challenge THEN 0 ELSE live}     \* delivered or lost
  /\ UNCHANGED <<picker, eimzo, step, try, tries, signed>>

\* unload_key is answered, or fails: "the key expires by itself".
UnloadKey(n) ==
  /\ n \in unloading
  /\ unloading' = unloading \ {n}
  /\ \/ unlocked' = unlocked \ {n} /\ UNCHANGED stray
     \/ stray' = stray \union {n} /\ UNCHANGED unlocked
  /\ UNCHANGED <<picker, program, windows, step, try, tries, server>>

ExpireKey(n) ==
  /\ n \in unlocked
  /\ unlocked' = unlocked \ {n}
  /\ UNCHANGED <<picker, program, windows, unloading, stray, step, try, tries, server>>

StartEimzo ==
  /\ program = "off" /\ program' = "on"
  /\ UNCHANGED <<picker, windows, unlocked, unloading, stray, step, try, tries, server>>

-----------------------------------------------------------------------------
Attempts == 1 .. MaxTries

Next ==
  \/ OpenDialog \/ Recheck \/ CloseDialog \/ ChooseKey \/ StartEimzo
  \/ \E p \in Probes : GetRequirement(p) \/ ListKeys(p)
  \/ Sign \/ Prepare \/ GiveUpWaiting \/ CreatePkcs7 \/ Commit
  \/ \E n \in Attempts :
       TypePassword(n) \/ CancelPassword(n) \/ UnloadKey(n) \/ ExpireKey(n)
  \/ \E n \in Attempts \union {0} : Report(n)

\* Calls to the server end with an answer or an error, those to E-IMZO with one
\* or the timeout.  Nobody has to type a password.
Calls == Prepare \/ GiveUpWaiting \/ CreatePkcs7 \/ Commit

Fairness == WF_vars(Calls)

Spec == Init /\ [][Next]_vars /\ Fairness

-----------------------------------------------------------------------------
TypeOK ==
  /\ program \in {"off", "denied", "on"}
  /\ windows \union unlocked \union unloading \union stray \subseteq Attempts
  /\ status \in {"checking", "not-running", "domain-denied", "ready"}
  /\ step \in {NoStep, "preparing", "unlocking", "signing", "saving"}
  /\ open \in BOOLEAN /\ required \in BOOLEAN /\ keys \subseteq Keys
  /\ {alias, try.key, signed} \subseteq Keys \union {NoKey}
  /\ reports \union {try.challenge, try.keyId, live} \subseteq Attempts \union {0}
  /\ \A p \in Probes : probe[p].at \in {"none", "requirement", "list"}

(***************************************************************************)
(* A key the director has unlocked is in use, on its way back to E-IMZO,   *)
(* or one whose answer never reached the page: no way out of sign forgets  *)
(* one (finally in sign, unloadKey).                                       *)
(***************************************************************************)
NoKeyForgotten == unlocked \subseteq {try.keyId} \union unloading \union stray

(***************************************************************************)
(* The dialog cannot be closed while an attempt runs, so every attempt     *)
(* ends, also when the password window stays hidden behind the browser     *)
(* and nobody types anything (CALL_TIMEOUT_MS).                            *)
(***************************************************************************)
DialogEnds == step # NoStep ~> step = NoStep

(***************************************************************************)
(* A filed signature is of the firm's key, also when the requirement could *)
(* not be fetched, or two probes overlapped, and the picker offered others.*)
(***************************************************************************)
FirmKeySigned == signed \in FirmKeys \union {NoKey}

(***************************************************************************)
(* "the wrong key is never offered rather than rejected later" (probe): a  *)
(* key the dialog would sign with is one of the firm.                      *)
(***************************************************************************)
WrongKeyNeverOffered == open /\ status = "ready" => alias \in FirmKeys \union {NoKey}
=============================================================================
