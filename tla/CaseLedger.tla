------------------------------ MODULE CaseLedger ------------------------------
(***************************************************************************)
(* What the case desk promises, without requests, counters or rows: a case *)
(* is opened as a draft, gets one contract number for life, higher than    *)
(* every number given before, and only with a number and every field       *)
(* filled in may it leave the draft; from then on it moves by the          *)
(* transition table alone, what is filled in changes only while it is a    *)
(* draft, and a closed case stays closed.                                  *)
(***************************************************************************)
EXTENDS Workflow, Naturals

CONSTANTS
  Cases,
  Most       \* as many numbers as are ever given

VARIABLES
  status,    \* status[c]: a status, or "NONE" before the case is opened
  contract,  \* contract[c]: its company-wide contract number, 0 for none
  filled     \* filled[c]: its required fields are filled in

ledger == <<status, contract, filled>>

Init ==
  /\ status = [c \in Cases |-> "NONE"] /\ contract = [c \in Cases |-> 0]
  /\ filled = [c \in Cases |-> FALSE]

Open(c) ==
  /\ status[c] = "NONE"
  /\ status' = [status EXCEPT ![c] = "DRAFT"]
  /\ \E f \in BOOLEAN : filled' = [filled EXCEPT ![c] = f]
  /\ UNCHANGED contract

Edit(c) ==
  /\ status[c] = "DRAFT"
  /\ filled' = [filled EXCEPT ![c] = ~filled[c]]
  /\ UNCHANGED <<status, contract>>

Number(c) ==
  /\ status[c] = "DRAFT"
  /\ contract[c] = 0
  /\ \E n \in 1..Most :
       /\ \A d \in Cases : contract[d] < n
       /\ contract' = [contract EXCEPT ![c] = n]
  /\ UNCHANGED <<status, filled>>

Move(c) ==
  \E rule \in Transitions :
    /\ status[c] = rule.from
    /\ status[c] \notin TerminalStatuses
    /\ rule.from = "DRAFT" => contract[c] # 0 /\ filled[c]
    /\ status' = [status EXCEPT ![c] = rule.to]
    /\ UNCHANGED <<contract, filled>>

Next == \E c \in Cases : Open(c) \/ Edit(c) \/ Number(c) \/ Move(c)

Spec == Init /\ [][Next]_ledger
=============================================================================
