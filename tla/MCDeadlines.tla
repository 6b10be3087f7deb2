----------------------------- MODULE MCDeadlines -----------------------------
(***************************************************************************)
(* An instance of Deadlines.  Day 3 is a Thursday: the weekend lies inside *)
(* the days modelled.  Handlers that interleave get the smaller sets, and  *)
(* a number of days below the least one.                                   *)
(***************************************************************************)
EXTENDS Deadlines

MCLastDay == [one \in BOOLEAN |-> IF one THEN 8 ELSE 6]

MCDaysChoices == [one \in BOOLEAN |-> IF one THEN {1, 2} ELSE {1}]

MCPauseChoices == [one \in BOOLEAN |-> IF one THEN {1, 2} ELSE {0 - 1, 1}]
=============================================================================
