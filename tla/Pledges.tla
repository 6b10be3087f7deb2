------------------------------- MODULE Pledges -------------------------------
(***************************************************************************)
(* The step "Garovlar" of the wizard: a tab for each pledge of the form,   *)
(* the scanner of a vehicle's certificate in the tab on screen             *)
(* (TexScan.tsx), and the photographs stored with a pledge                 *)
(* (CollateralMediaUpload.tsx).  The scanner reads while the operator goes *)
(* on, files are uploaded behind the operator's back, and on an existing   *)
(* draft every save fetches the form again.                                *)
(*                                                                         *)
(* Pledges and their vehicles are numbers, in the order they were added;   *)
(* 0 is no vehicle.  The two pictures of a certificate are one value, the  *)
(* vehicle they show.  MaxPledges bounds the pledges ever added, MaxScans  *)
(* the pictures chosen; one upload runs at a time.                         *)
(***************************************************************************)
EXTENDS Naturals, SequencesExt

CONSTANTS Pages, MaxPledges, MaxScans

VARIABLES
  page,      \* "new", or "draft": opened with the id of a case in its URL
  known,     \* the form has the id of a case
  open,      \* the step is on screen
  cols,      \* the pledges in the form: [id, auto, vehicle]
  activeCol, \* the tab chosen last
  delIdx,    \* the pledge whose removal waits for an answer, or 0
  scans,     \* texScanStore of the case, by tab: [images, result]
  busy,      \* the pictures the scanner on screen is reading, or 0
  stored,    \* the pledges of the case on the server
  upload,    \* the upload running: [cols, index, images, step]
  reload,    \* the case is being fetched into the form again
  media,     \* files of pledges on the server: [shows, on]
  added, chosen,
  gone       \* a pledge has left the form

vars == <<page, known, open, cols, activeCol, delIdx, scans, busy, stored, upload, reload,
          media, added, chosen, gone>>

PledgesAssumption == Pages \subseteq {"new", "draft"} /\ MaxPledges \in Nat \ {0} /\ MaxScans \in Nat

Tabs == 1 .. MaxPledges

NoScan == [images |-> 0, result |-> 0]

NoUpload == [step |-> "none"]

-----------------------------------------------------------------------------
\* Tabs are counted from 1; the last one is shown when the chosen one is gone.
Active(form, tab) == IF tab > Len(form) THEN Len(form) ELSE tab

\* The tab whose scanner is mounted, or 0: that of a vehicle, while the step is on screen.
Scanner(form, tab, on) ==
  LET i == Active(form, tab) IN IF on /\ i # 0 /\ form[i].auto THEN i ELSE 0

Shown == Scanner(cols, activeCol, open)

\* Mutant of StoreKey: the key leaves the tab out.
StoreKeyShared(tab) == 1

\* storeKey, for one case.
StoreKey(tab) == tab

Scan == scans[StoreKey(Shown)]

\* A scanner that goes on in the same tab keeps its picture and its request;
\* one mounted anew shows what the store has and waits for nothing.
Remounted(form, tab, on) == busy' = IF Scanner(form, tab, on) = Shown THEN busy ELSE 0

\* The mirror effect writes what the scanner shows under its key.
Mirror(state) == scans' = [scans EXCEPT ![StoreKey(Shown)] = state]

\* With the id of the case the key of every tab is another one; only what is
\* on screen is written there.
Rekeyed ==
  IF known THEN UNCHANGED scans
  ELSE scans' = [k \in Tabs |-> IF Shown # 0 /\ k = StoreKey(Shown) THEN scans[k] ELSE NoScan]

\* The confirmation covers the page.
Free == open /\ delIdx = 0

-----------------------------------------------------------------------------
(***************************************************************************)
(* The tabs.                                                               *)
(***************************************************************************)
AddCol(auto) ==
  /\ Free /\ added < MaxPledges
  /\ added' = added + 1
  /\ cols' = Append(cols, [id |-> added + 1, auto |-> auto, vehicle |-> 0])
  /\ activeCol' = Len(cols')
  /\ Remounted(cols', activeCol', open)
  /\ UNCHANGED <<page, known, open, delIdx, scans, stored, upload, reload, media, chosen, gone>>

ChooseTab(i) ==
  /\ Free /\ i \in DOMAIN cols
  /\ activeCol' = i
  /\ Remounted(cols, i, open)
  /\ UNCHANGED <<page, known, open, cols, delIdx, scans, stored, upload, reload, media, added, chosen, gone>>

\* setCol: the card of the pledge on screen.
SetCol(patch) == cols' = [cols EXCEPT ![Active(cols, activeCol)] = patch]

Card == cols[Active(cols, activeCol)]

\* What is typed in the card is true of its pledge; only the fields of a vehicle are told apart.
Type ==
  /\ Free /\ cols # <<>>
  /\ SetCol([Card EXCEPT !.vehicle = IF Card.auto THEN Card.id ELSE 0])
  /\ UNCHANGED <<page, known, open, activeCol, delIdx, scans, busy, stored, upload, reload, media, added, chosen, gone>>

AskRemove ==
  /\ Free /\ cols # <<>>
  /\ delIdx' = Active(cols, activeCol)
  /\ UNCHANGED <<page, known, open, cols, activeCol, scans, busy, stored, upload, reload, media, added, chosen, gone>>

\* The pledge with the number asked about, if there still is one; the tab before it is chosen.
RemoveCol ==
  /\ delIdx # 0
  /\ cols' = IF delIdx \in DOMAIN cols THEN RemoveAt(cols, delIdx) ELSE cols
  /\ activeCol' = IF delIdx = 1 THEN 1 ELSE delIdx - 1
  /\ delIdx' = 0
  /\ gone' = TRUE
  /\ Remounted(cols', activeCol', open)
  /\ UNCHANGED <<page, known, open, scans, stored, upload, reload, media, added, chosen>>

KeepCol ==
  /\ delIdx # 0
  /\ delIdx' = 0
  /\ UNCHANGED <<page, known, open, cols, activeCol, scans, busy, stored, upload, reload, media, added, chosen, gone>>

\* To another step and back: the first tab again.  Next and the numbered steps save the line,
\* "Orqaga" does not.
Leave(save) ==
  /\ Free
  /\ open' = FALSE
  /\ busy' = 0
  /\ IF save
     THEN /\ stored' = cols
          /\ known' = TRUE
          /\ Rekeyed
          /\ reload' = (reload \/ page = "draft")
     ELSE UNCHANGED <<stored, known, scans, reload>>
  /\ UNCHANGED <<page, cols, activeCol, delIdx, upload, media, added, chosen, gone>>

Return ==
  /\ ~open
  /\ open' = TRUE
  /\ activeCol' = 1
  /\ UNCHANGED <<page, known, cols, delIdx, scans, busy, stored, upload, reload, media, added, chosen, gone>>

-----------------------------------------------------------------------------
(***************************************************************************)
(* The scanner of the tab on screen.                                       *)
(***************************************************************************)
\* The operator holds the certificate of the pledge on screen; the pictures can be replaced
\* until a result is shown.
ChooseImages ==
  /\ Free /\ Shown # 0 /\ chosen < MaxScans
  /\ Scan.result = 0
  /\ chosen' = chosen + 1
  /\ Mirror([Scan EXCEPT !.images = Card.id])
  /\ UNCHANGED <<page, known, open, cols, activeCol, delIdx, busy, stored, upload, reload, media, added, gone>>

Run ==
  /\ Free /\ Shown # 0 /\ busy = 0
  /\ Scan.images # 0 /\ Scan.result = 0
  /\ busy' = Scan.images
  /\ UNCHANGED <<page, known, open, cols, activeCol, delIdx, scans, stored, upload, reload, media, added, chosen, gone>>

\* The answer, or an error.
Read(good) ==
  /\ busy # 0
  /\ Mirror(IF good THEN [Scan EXCEPT !.result = busy] ELSE Scan)
  /\ busy' = 0
  /\ UNCHANGED <<page, known, open, cols, activeCol, delIdx, stored, upload, reload, media, added, chosen, gone>>

\* "Qayta".
Again ==
  /\ Free /\ Shown # 0
  /\ Scan.result # 0
  /\ Mirror([Scan EXCEPT !.result = 0])
  /\ UNCHANGED <<page, known, open, cols, activeCol, delIdx, busy, stored, upload, reload, media, added, chosen, gone>>

\* saveCollateralMedia begins; it saves the form as it was rendered when it was called.
Upload(images) ==
  /\ upload = NoUpload
  /\ upload' = [step |-> "save", cols |-> cols, index |-> Active(cols, activeCol), images |-> images]

\* "Qo'llash": the fields go into the pledge on screen, the pictures to its media.
Apply ==
  /\ Free /\ Shown # 0
  /\ Scan.result # 0
  /\ SetCol([Card EXCEPT !.vehicle = Scan.result])
  /\ Upload(Scan.images)
  /\ Mirror(NoScan)
  /\ UNCHANGED <<page, known, open, activeCol, delIdx, busy, stored, reload, media, added, chosen, gone>>

\* CollateralAttachments: files of the pledge on screen are picked.
Attach ==
  /\ Free /\ cols # <<>> /\ chosen < MaxScans
  /\ chosen' = chosen + 1
  /\ Upload(Card.id)
  /\ UNCHANGED <<page, known, open, cols, activeCol, delIdx, scans, busy, stored, reload, media, added, gone>>

-----------------------------------------------------------------------------
(***************************************************************************)
(* The upload: a case is ensured and the line saved, then the files go to  *)
(* the pledge with the same number.  Either request may fail.              *)
(***************************************************************************)
SaveLine ==
  /\ upload.step = "save"
  /\ known' = TRUE
  /\ Rekeyed
  /\ stored' = upload.cols
  /\ reload' = (reload \/ page = "draft")
  /\ upload' = [upload EXCEPT !.step = "files"]
  /\ UNCHANGED <<page, open, cols, activeCol, delIdx, busy, media, added, chosen, gone>>

StoreFiles ==
  /\ upload.step = "files"
  /\ media' = IF upload.index \in DOMAIN stored
              THEN media \union {[shows |-> upload.images, on |-> stored[upload.index].id]}
              ELSE media
  /\ upload' = NoUpload
  /\ UNCHANGED <<page, known, open, cols, activeCol, delIdx, scans, busy, stored, reload, added, chosen, gone>>

Fail ==
  /\ upload # NoUpload
  /\ upload' = NoUpload
  /\ UNCHANGED <<page, known, open, cols, activeCol, delIdx, scans, busy, stored, reload, media, added, chosen, gone>>

\* The query of the page answers: the form is what the server has.
Loaded ==
  /\ reload
  /\ reload' = FALSE
  /\ cols' = stored
  /\ Remounted(cols', activeCol, open)
  /\ gone' = (gone \/ Len(stored) < Len(cols))
  /\ UNCHANGED <<page, known, open, activeCol, delIdx, scans, stored, upload, media, added, chosen>>

-----------------------------------------------------------------------------
Init ==
  /\ page \in Pages
  /\ known = (page = "draft")
  /\ open = TRUE /\ reload = FALSE /\ gone = FALSE
  /\ cols = <<>> /\ stored = <<>>
  /\ activeCol = 1 /\ delIdx = 0 /\ busy = 0
  /\ scans = [k \in Tabs |-> NoScan]
  /\ upload = NoUpload
  /\ media = {}
  /\ added = 0 /\ chosen = 0

Next ==
  \/ \E auto \in BOOLEAN : AddCol(auto)
  \/ \E i \in Tabs : ChooseTab(i)
  \/ Type \/ AskRemove \/ RemoveCol \/ KeepCol
  \/ \E save \in BOOLEAN : Leave(save)
  \/ Return
  \/ ChooseImages \/ Run \/ Again \/ Apply \/ Attach
  \/ \E good \in BOOLEAN : Read(good)
  \/ SaveLine \/ StoreFiles \/ Fail \/ Loaded

Spec == Init /\ [][Next]_vars

(***************************************************************************)
(* "Stable key (per collateral)", "Keyed per collateral" (TexScan.tsx): as *)
(* long as no pledge has left the form, the fields a scan fills are those  *)
(* of the vehicle pledged there, and a pledge's files show it, however     *)
(* tabs are changed, scans are left and taken up again, and uploads run.   *)
(***************************************************************************)
ScansOwnPledge ==
  gone \/
  /\ \A i \in DOMAIN cols : cols[i].vehicle \in {0, cols[i].id}
  /\ \A m \in media : m.shows = m.on
=============================================================================
