------------------------------- MODULE MCPages -------------------------------
(***************************************************************************)
(* Pages that share no state, each against its own server side, and the    *)
(* accounts that may open them, each on a small instance.  One run checks  *)
(* them one at a time: part is chosen in Init and the variables of the     *)
(* other parts keep their first values.                                    *)
(***************************************************************************)
EXTENDS Accounts, Sequences

CONSTANTS
  Keys, FirmKeys, Probes, MaxTries, MaxProbes, NoKey, NoStep,             \* SignDialog
  Scans, MaxImages, MaxConcurrent, Candidates, Passes, NoCandidate,       \* Scanning
  pop, veh, c1, c2                                                        \* Registry

VARIABLES
  part,
  program, windows, unlocked, unloading, stray, open, status, keys, alias, required,
  probe, step, try, tries, probed, signed, live, reports,
  kind, front, back, images, busy, result, form, scan, active, queue, kept,
  tab, input, answer, timer, checked, typed, adding, term, debounced, answers,
  asking, drafts, terms, carried

dVars == <<program, windows, unlocked, unloading, stray, open, status, keys, alias, required,
           probe, step, try, tries, probed, signed, live, reports>>
sVars == <<kind, front, back, images, busy, result, form, scan, active, queue, kept>>
rVars == <<tab, input, answer, timer, checked, typed, adding, term, debounced, answers,
           asking, drafts, terms, carried>>
aVars == vars
pagesVars == <<part, aVars, dVars, sVars, rVars>>

D == INSTANCE SignDialog

S == INSTANCE Scanning

R == INSTANCE Registry WITH
  Registries <- {pop, veh}, Cases <- {c1, c2}, MaxTyped <- 2, MaxTerms <- 1,
  active <- tab, status <- answer

Read(format, digits, framed) == [format |-> format, digits |-> digits, framed |-> framed]

\* A whole reading, one without the number and one without the dates.
MCCandidates == {Read("TD1", {"number", "birth", "expiry", "composite"}, TRUE),
                 Read("TD1", {"birth", "expiry", "composite"}, TRUE),
                 Read("TD1", {"composite", "number"}, TRUE)}

ASSUME PagesAssumption ==
  /\ AccountsAssumption
  /\ D!DialogAssumption /\ S!ScanningAssumption /\ R!RegistryAssumption

-----------------------------------------------------------------------------
PagesInit ==
  /\ part \in {"accounts", "dialog", "scanning", "registry"}
  /\ Init /\ D!Init /\ S!Init /\ R!Init
  /\ part # "accounts" => alone /\ \A u \in Users \ {Root} : account[u] = NoAccount
  /\ part # "dialog" => program = "on"
  /\ part # "registry" => tab = pop

PagesNext ==
  \/ part = "accounts" /\ Next /\ UNCHANGED <<part, dVars, sVars, rVars>>
  \/ part = "dialog" /\ D!Next /\ UNCHANGED <<part, aVars, sVars, rVars>>
  \/ part = "scanning" /\ S!Next /\ UNCHANGED <<part, aVars, dVars, rVars>>
  \/ part = "registry" /\ R!Next /\ UNCHANGED <<part, aVars, dVars, sVars>>

\* What is fair in a part is disabled where the part does not run.
PagesSpec == PagesInit /\ [][PagesNext]_pagesVars /\ D!Fairness /\ S!Fairness /\ R!Fairness

\* Signing dialog: every attempt ends (CALL_TIMEOUT_MS).
DialogEnds == D!DialogEnds

\* Signing dialog: no unlocked key is forgotten (unloadKey).
NoKeyForgotten == D!NoKeyForgotten

\* Scanning and registry check: who waits at the gate gets through it, and every check
\* ends (Semaphore.run; check of DocCheckPage).
WaitingScansRun == S!WaitingScansRun /\ R!CheckEnds

\* Scanning: no composite digit carries a reading (CHECK_WEIGHT).
AppliedIsVerified == S!AppliedIsVerified
=============================================================================
