------------------------------- MODULE Registry -------------------------------
(***************************************************************************)
(* "Hujjatlar tekshirish" (pages/DocCheckPage.tsx): identifiers are typed  *)
(* in per state registry, a check runs on a timer until the gateway is     *)
(* connected, and what was typed is carried into a new application or into *)
(* a draft found by a search that waits for the typing to pause.           *)
(*                                                                         *)
(* An identifier is 0 (none), a version, or, negative, one too short to    *)
(* check; a search term stands for the cases it matches.                   *)
(***************************************************************************)
EXTENDS Integers, FiniteSets

CONSTANTS
  Registries,   \* pop, cad, veh, tax, civ
  Cases,        \* cases the search may find
  MaxTyped,     \* bound: identifiers typed in
  MaxTerms      \* bound: search terms typed in

RegistryAssumption == MaxTyped \in Nat /\ MaxTerms \in Nat

VARIABLES
  active, input, status,
  timer,      \* registries whose timer runs
  checked,    \* history: the identifier the last check of a registry was pressed for
  typed,
  adding,     \* "Arizaga qo'shish" is open
  term, debounced,
  answers,    \* drafts found, by the term they were found for: the query cache
  asking,     \* searches on their way
  drafts,     \* cases still in DRAFT on the server
  terms, carried

vars == <<active, input, status, timer, checked, typed, adding, term, debounced, answers,
          asking, drafts, terms, carried>>

lookup == <<active, input, status, timer, checked, typed>>
search == <<term, debounced, answers, asking, terms>>

NotAsked == [known |-> FALSE, cases |-> {}]

Init ==
  /\ active \in Registries
  /\ input = [k \in Registries |-> 0] /\ status = [k \in Registries |-> "idle"]
  /\ timer = {} /\ checked = [k \in Registries |-> 0] /\ typed = 0
  /\ adding = FALSE /\ term = {} /\ debounced = {}
  /\ answers = [t \in SUBSET Cases |-> NotAsked] /\ asking = {}
  /\ drafts = Cases /\ terms = 0 /\ carried = {}

-----------------------------------------------------------------------------
SetActive(k) ==
  /\ k # active /\ ~adding /\ active' = k
  /\ UNCHANGED <<input, status, timer, checked, typed, adding, search, drafts, carried>>

SetVal ==
  /\ ~adding /\ typed < MaxTyped /\ typed' = typed + 1
  /\ \E v \in {typed + 1, 0 - (typed + 1), 0} : input' = [input EXCEPT ![active] = v]
  /\ status' = [status EXCEPT ![active] = "idle"]
  /\ UNCHANGED <<active, timer, checked, adding, search, drafts, carried>>

CanCheck(v) == v > 0

\* "Tekshirish": a timer of the registry that still runs is started anew.
Check ==
  /\ ~adding /\ status[active] # "loading" /\ CanCheck(input[active])
  /\ status' = [status EXCEPT ![active] = "loading"]
  /\ timer' = timer \union {active}
  /\ checked' = [checked EXCEPT ![active] = input[active]]
  /\ UNCHANGED <<active, input, typed, adding, search, drafts, carried>>

\* Mutant of AnswerTo: the registry shown by then gets the answer.
AnswerToActive(k) == active

\* The registry the check was pressed for.
AnswerTo(k) == k

TimerFires(k) ==
  /\ k \in timer /\ timer' = timer \ {k}
  /\ status' = [status EXCEPT ![AnswerTo(k)] = "done"]
  /\ UNCHANGED <<active, input, checked, typed, adding, search, drafts, carried>>

-----------------------------------------------------------------------------
OpenAdd ==
  /\ ~adding /\ status[active] = "done" /\ adding' = TRUE
  /\ UNCHANGED <<lookup, search, drafts, carried>>

CloseAdd == adding /\ adding' = FALSE /\ UNCHANGED <<lookup, search, drafts, carried>>

TypeTerm(t) ==
  /\ adding /\ terms < MaxTerms /\ terms' = terms + 1
  /\ t # term /\ term' = t
  /\ UNCHANGED <<lookup, adding, debounced, answers, asking, drafts, carried>>

\* The typing paused: the term is searched for, and answered from the cache meanwhile.
Debounce ==
  /\ debounced # term /\ debounced' = term
  /\ asking' = IF term = {} THEN asking ELSE asking \union {term}
  /\ UNCHANGED <<lookup, adding, term, answers, terms, drafts, carried>>

SearchAnswered(t) ==
  /\ t \in asking /\ asking' = asking \ {t}
  /\ answers' \in {answers, [answers EXCEPT ![t] = [known |-> TRUE, cases |-> t \intersect drafts]]}
  /\ UNCHANGED <<lookup, adding, term, debounced, terms, drafts, carried>>

\* The drafts listed: those of the term that is searched for.
Listed == answers[debounced].cases

\* goNew, goDraft: the page is left for the wizard with what is typed in by now.
Prefill == [registry |-> active, value |-> input[active]]

Leave(to) ==
  /\ adding
  /\ carried' = carried \union {[to |-> to, prefill |-> Prefill]}
  /\ adding' = FALSE /\ timer' = {}
  /\ input' = [k \in Registries |-> 0] /\ status' = [k \in Registries |-> "idle"]
  /\ checked' = [k \in Registries |-> 0]
  /\ term' = {} /\ debounced' = {}
  /\ UNCHANGED <<active, typed, answers, asking, terms, drafts>>

GoNew == Leave({})

GoDraft(c) == c \in Listed /\ Leave({c})

SubmitElsewhere(c) ==
  /\ c \in drafts /\ drafts' = drafts \ {c}
  /\ UNCHANGED <<lookup, adding, search, carried>>

-----------------------------------------------------------------------------
Next ==
  \/ \E k \in Registries : SetActive(k) \/ TimerFires(k)
  \/ SetVal \/ Check \/ OpenAdd \/ CloseAdd \/ Debounce \/ GoNew
  \/ \E t \in SUBSET Cases : TypeTerm(t) \/ SearchAnswered(t)
  \/ \E c \in Cases : GoDraft(c) \/ SubmitElsewhere(c)

\* Timers fire.
Fairness == \A k \in Registries : WF_vars(TimerFires(k))

Spec == Init /\ [][Next]_vars /\ Fairness

-----------------------------------------------------------------------------
(***************************************************************************)
(* A check that is shown as running ends, also when another registry is    *)
(* looked at meanwhile (the key check keeps for its timer).                *)
(***************************************************************************)
CheckEnds == \A k \in Registries : status[k] = "loading" ~> status[k] # "loading"

(***************************************************************************)
(* "Editing the identifier invalidates a shown result" (setVal): an answer *)
(* shown is to the identifier that stands in the field.                    *)
(***************************************************************************)
RecheckedAfterEdit == \A k \in Registries : status[k] = "done" => checked[k] = input[k]
=============================================================================
