------------------------------- MODULE Scanning -------------------------------
(***************************************************************************)
(* Reading of passports, identity cards and vehicle certificates: the page *)
(* that takes the images and fills the form (PassportScan.tsx,             *)
(* TexScan.tsx), and the one recognition gate all requests of the server   *)
(* pass (passport.service.ts).                                             *)
(*                                                                         *)
(* Images are versions, a scan carries those it was started with.  What    *)
(* the recognition makes of an image is any of the candidates the instance *)
(* gives; a candidate is known by the check digits of its MRZ that agree.  *)
(***************************************************************************)
EXTENDS Naturals, Sequences, FiniteSets

CONSTANTS
  Scans,           \* requests for a scan, 1 .. n in the order they are sent
  MaxImages,       \* bound: how often an image is chosen
  MaxConcurrent,   \* OCR_MAX_CONCURRENT
  Candidates,      \* MRZ candidates a pass may find: [format, digits, framed]
  Passes,          \* passes over an image; four in the code
  NoCandidate

\* MRZ formats and the check digits of each.
Digits == [TD1 |-> {"number", "birth", "expiry", "composite"},
           TD3 |-> {"number", "birth", "expiry", "composite", "personal"}]

ScanningAssumption ==
  /\ IsFiniteSet(Scans) /\ Scans = 1 .. Cardinality(Scans)
  /\ MaxImages \in Nat /\ MaxConcurrent \in Nat \ {0} /\ Passes \in Nat
  /\ NoCandidate \notin Candidates
  /\ \A c \in Candidates : c.format \in DOMAIN Digits /\ c.digits \subseteq Digits[c.format] /\ c.framed \in BOOLEAN

VARIABLES
  kind,       \* document type of the scanner: "PASSPORT", "ID" or "TEX"
  front, back,\* the images chosen, 0 for none
  images,     \* number of images chosen so far
  busy, result,
  form,       \* the scan whose fields are in the review form, 0: EMPTY
  scan,       \* by request: its images, stage, passes done and best candidate
  active, queue,
  kept        \* [scan, images] handed over by confirm

vars == <<kind, front, back, images, busy, result, form, scan, active, queue, kept>>

page == <<kind, front, back, images, busy, result, form, kept>>
gate == <<active, queue>>

Unsent == [kind |-> "PASSPORT", images |-> {}, stage |-> "unsent", pass |-> 0, best |-> NoCandidate]

Init ==
  /\ kind = "PASSPORT" /\ front = 0 /\ back = 0 /\ images = 0
  /\ busy = FALSE /\ result = 0 /\ form = 0
  /\ scan = [s \in Scans |-> Unsent]
  /\ active = 0 /\ queue = <<>> /\ kept = {}

In(stage) == {s \in Scans : scan[s].stage = stage}

-----------------------------------------------------------------------------
(***************************************************************************)
(* Check digits to confidence, in percent.                                 *)
(***************************************************************************)
\* Mutant of CheckWeight: the composite digit weighs as much as the number.
CheckWeightHeavy == [composite |-> 3, number |-> 3, birth |-> 2, expiry |-> 2, personal |-> 1]

CheckWeight == [composite |-> 1, number |-> 3, birth |-> 2, expiry |-> 2, personal |-> 1]

Weight(digits) ==
  LET Of(d) == IF d \in digits THEN CheckWeight[d] ELSE 0
  IN Of("composite") + Of("number") + Of("birth") + Of("expiry") + Of("personal")

\* Math.round of the weighted share.
Confidence(c) ==
  LET got == Weight(c.digits)  total == Weight(Digits[c.format])
  IN (200 * got + total) \div (2 * total)

\* The parse is consistent as a whole, the name line included.
ValidParse(c) == c.digits = Digits[c.format] /\ c.framed

Better(c, d) ==
  \/ d = NoCandidate
  \/ ValidParse(c) /\ ~ValidParse(d)
  \/ ValidParse(c) = ValidParse(d) /\ Confidence(c) > Confidence(d)

\* consider
Considered(best, c) == IF Better(c, best) THEN c ELSE best

\* done: nothing more is read after a valid parse, on a card after 90 percent.
Done(s, best) ==
  best # NoCandidate /\ (ValidParse(best) \/ (scan[s].kind = "ID" /\ Confidence(best) >= 90))

Trust == 60

\* What the review of an answered scan may be applied with.
Trusted(s) ==
  scan[s].kind = "TEX" \/ (scan[s].best # NoCandidate /\ Confidence(scan[s].best) >= Trust)

-----------------------------------------------------------------------------
(***************************************************************************)
(* The page.                                                               *)
(***************************************************************************)
Chosen == {front, back} \ {0}

Send(used) ==
  \E s \in In("unsent") :
    /\ \A r \in In("unsent") : s <= r
    /\ scan' = [scan EXCEPT ![s].kind = kind, ![s].images = used, ![s].stage = "sent"]
    /\ busy' = TRUE
    /\ UNCHANGED gate

SwitchKind(k) ==
  /\ k # kind
  /\ kind' = k /\ front' = 0 /\ back' = 0 /\ result' = 0 /\ form' = 0
  /\ busy' = IF "TEX" \in {k, kind} THEN FALSE ELSE busy      \* another scanner
  /\ UNCHANGED <<images, scan, gate, kept>>

\* A passport is scanned as soon as it is chosen or dropped, a scan running or not.
DropPassport ==
  /\ kind = "PASSPORT" /\ images < MaxImages
  /\ images' = images + 1 /\ front' = images + 1
  /\ result' = 0
  /\ Send({images + 1})
  /\ UNCHANGED <<kind, back, form, kept>>

\* The sides of a card or certificate are chosen one by one, before or after a scan.
ChooseSide ==
  /\ kind # "PASSPORT" /\ images < MaxImages
  /\ images' = images + 1
  /\ \/ front' = images + 1 /\ UNCHANGED back
     \/ back' = images + 1 /\ UNCHANGED front
  /\ UNCHANGED <<kind, busy, result, form, scan, gate, kept>>

StartScan ==
  /\ kind # "PASSPORT" /\ front # 0 /\ back # 0 /\ ~busy
  /\ result' = IF kind = "ID" THEN 0 ELSE result
  /\ kind = "TEX" => result = 0
  /\ Send(Chosen)
  /\ UNCHANGED <<kind, front, back, images, form, kept>>

\* applyResult: the fields of an untrusted reading are not shown for review.
Prefilled(s) == IF Trusted(s) THEN s ELSE 0

\* An answer comes back, of whichever scan; the scanner it was sent from may be gone.
Answer(s) ==
  /\ scan[s].stage \in {"read", "failed"}
  /\ scan' = [scan EXCEPT ![s].stage = "answered"]
  /\ IF (scan[s].kind = "TEX") # (kind = "TEX")
     THEN UNCHANGED <<busy, result, form>>
     ELSE /\ busy' = FALSE
          /\ IF scan[s].stage = "failed"
             THEN UNCHANGED <<result, form>>
             ELSE result' = s /\ form' = Prefilled(s)
  /\ UNCHANGED <<kind, front, back, images, gate, kept>>

\* "Qayta": the review is closed, the images stay.
Retry == result # 0 /\ result' = 0
         /\ UNCHANGED <<kind, front, back, images, busy, form, scan, gate, kept>>

\* confirm, apply: the fields go into the form of the case, the images to the server.
Confirm ==
  /\ result # 0 /\ Trusted(result)
  /\ kept' = kept \union {[scan |-> form, images |-> Chosen]}
  /\ result' = 0
  /\ IF kind = "TEX" THEN front' = 0 /\ back' = 0 ELSE UNCHANGED <<front, back>>
  /\ UNCHANGED <<kind, images, busy, form, scan, gate>>

-----------------------------------------------------------------------------
(***************************************************************************)
(* The gate (Semaphore) and the recognition behind it.                     *)
(***************************************************************************)
Arrive(s) ==
  /\ scan[s].stage = "sent"
  /\ IF active >= MaxConcurrent
     THEN /\ queue' = Append(queue, s) /\ UNCHANGED active
          /\ scan' = [scan EXCEPT ![s].stage = "waiting"]
     ELSE /\ active' = active + 1 /\ UNCHANGED queue
          /\ scan' = [scan EXCEPT ![s].stage = "running"]
  /\ UNCHANGED page

\* One pass (band or full frame, plain or thresholded) with the best its four
\* orientations came by, if anything; a certificate has no MRZ to find.
ReadPass(s) ==
  /\ scan[s].stage = "running" /\ scan[s].pass < Passes
  /\ scan[s].kind # "TEX" /\ ~Done(s, scan[s].best)
  /\ \E best \in {scan[s].best} \union {Considered(scan[s].best, c) : c \in Candidates} :
       scan' = [scan EXCEPT ![s].pass = @ + 1, ![s].best = best]
  /\ UNCHANGED <<page, gate>>

\* Mutant of Released: a scan that throws keeps its place.
ReleasedIfRead(stage) == stage = "read"

\* finally: the place is given back however the scan ends.
Released(stage) == TRUE

\* The first waiter is woken and takes the place before any other request runs.
Leave(s, stage) ==
  LET woken == Released(stage) /\ queue # <<>>
  IN /\ active' = IF Released(stage) /\ ~woken THEN active - 1 ELSE active
     /\ queue' = IF woken THEN Tail(queue) ELSE queue
     /\ scan' = [r \in Scans |-> IF r = s THEN [scan[s] EXCEPT !.stage = stage]
                                 ELSE IF woken /\ r = Head(queue)
                                      THEN [scan[r] EXCEPT !.stage = "running"]
                                      ELSE scan[r]]
     /\ UNCHANGED page

EndScan(s) ==
  /\ scan[s].stage = "running"
  /\ scan[s].kind = "TEX" \/ Done(s, scan[s].best) \/ scan[s].pass = Passes
  /\ Leave(s, "read")

\* A worker cannot be created, an image cannot be decoded.
ThrowScan(s) == scan[s].stage = "running" /\ Leave(s, "failed")

-----------------------------------------------------------------------------
Next ==
  \/ \E k \in {"PASSPORT", "ID", "TEX"} : SwitchKind(k)
  \/ DropPassport \/ ChooseSide \/ StartScan \/ Retry \/ Confirm
  \/ \E s \in Scans : Answer(s) \/ Arrive(s) \/ ReadPass(s) \/ EndScan(s) \/ ThrowScan(s)

\* A pass ends: the recognition answers or throws (there is no timeout).
Work(s) == Arrive(s) \/ ReadPass(s) \/ EndScan(s)

Fairness == \A s \in Scans : WF_vars(Work(s))

Spec == Init /\ [][Next]_vars /\ Fairness

-----------------------------------------------------------------------------
Between(n) == n \in 0 .. Cardinality(Scans)

TypeOK ==
  /\ kind \in {"PASSPORT", "ID", "TEX"} /\ busy \in BOOLEAN
  /\ \A i \in {front, back, images} : i \in 0 .. MaxImages
  /\ Between(result) /\ Between(form) /\ Between(active) /\ queue \in Seq(Scans)

(***************************************************************************)
(* "This gate serializes scans": never more run than the gate admits, and  *)
(* its counter is the number of those that do (Semaphore.run).             *)
(***************************************************************************)
GateHolds == active = Cardinality(In("running")) /\ active <= MaxConcurrent

(***************************************************************************)
(* A request that waits behind others is read in the end, however those    *)
(* before it end (finally in Semaphore.run).                               *)
(***************************************************************************)
WaitingScansRun == \A s \in Scans : scan[s].stage = "waiting" ~> scan[s].stage # "waiting"

(***************************************************************************)
(* Of a reading of a passport or card that gets into the form at least two *)
(* of number, birth date and expiry date agree with their check digits:    *)
(* the composite digit cannot carry a reading (CHECK_WEIGHT, TRUST).       *)
(***************************************************************************)
AppliedIsVerified ==
  \A k \in kept : k.scan # 0 /\ scan[k.scan].kind # "TEX" =>
    Cardinality(scan[k.scan].best.digits \intersect {"number", "birth", "expiry"}) >= 2

(***************************************************************************)
(* "Called on confirm with the scanned image file(s) + the read passport   *)
(* number, to persist them" (PassportScan): the images kept are those the  *)
(* fields were read from.                                                  *)
(***************************************************************************)
KeptImagesWereRead == \A k \in kept : k.scan # 0 => scan[k.scan].images = k.images
=============================================================================
