----------------------------- MODULE MCCaseDesk -----------------------------
(***************************************************************************)
(* The case desk on one of two instances, chosen in Init:                  *)
(*   "serial"  two cases and all roles, one request at a time, three       *)
(*             events at most: the handlers as each of them is written;    *)
(*   "races"   one case and all roles but the administrator, two requests  *)
(*             at a time, five events at most.                             *)
(***************************************************************************)
EXTENDS MCCaseLifecycle

CONSTANTS c1, c2

VARIABLE instance

NoAdmin(r) ==
  /\ req'[r].step = "create" => req'[r].user # adm
  /\ "rule" \in DOMAIN req'[r] => req'[r].rule.role # "ADMIN"

InScope ==
  CASE instance = "serial" ->
         /\ OneAtATime'
         /\ Len(log'[c1]) + Len(log'[c2]) + Cardinality(InFlight') <= 3
    [] instance = "races" ->
         /\ Cardinality(Created') <= 1
         /\ \A r \in Requests :
              /\ NoAdmin(r)
              /\ req'[r].step = "create" => req[r].step = "create" \/ Created = {}

DeskSpec ==
  /\ Init /\ instance \in {"serial", "races"}
  /\ [][Next /\ InScope /\ UNCHANGED instance]_<<vars, instance>>

-----------------------------------------------------------------------------
\* One request at a time the handlers implement what CaseLedger promises, status,
\* contract number and completeness read off the row: a half-filled draft never reaches the
\* moderator, and nothing is filled in or taken out later.
SerialLedgerSpec ==
  /\ instance = "serial" => Ledger!Init
  /\ [][instance = "serial" => Ledger!Next]_(Ledger!ledger)
=============================================================================
