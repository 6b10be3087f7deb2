------------------------------ MODULE Workflow ------------------------------
(***************************************************************************)
(* The transition table every case moves by: packages/shared/src/          *)
(* workflow.ts over the enums of packages/shared/src/enums.ts.  The table  *)
(* is a constant of the program, so this module has no state: the modules  *)
(* that move a case (CaseLifecycle, Signing, Deadlines) extend it.         *)
(***************************************************************************)

Roles == {"OPERATOR", "MODERATOR", "DIRECTOR", "ADMIN"}

Statuses == {"DRAFT", "MODERATION", "DIRECTOR_REVIEW", "ADMIN_FINALIZE",
             "FINALIZED", "REJECTED", "CANCELLED"}

\* What a transition request may ask for; FINALIZE is in the enum, in no rule.
Decisions == {"SUBMIT", "APPROVE", "RETURN", "FINALIZE", "CANCEL", "REOPEN"}

Rule(from, to, role, decision) ==
  [from |-> from, to |-> to, role |-> role, decision |-> decision]

RuleSet == [from : Statuses, to : Statuses, role : Roles, decision : Decisions]

\* Mutant of Transitions: the director may finalise out of the moderator's step.
TransitionsSkipModerator ==
  { Rule("DRAFT", "MODERATION", "OPERATOR", "SUBMIT"),
    Rule("MODERATION", "DRAFT", "MODERATOR", "RETURN"),
    Rule("MODERATION", "FINALIZED", "DIRECTOR", "APPROVE") }

\* Mutant of Transitions: a director may reopen a cancelled case.
TransitionsReopenCancelled ==
  { Rule("DRAFT", "MODERATION", "OPERATOR", "SUBMIT"),
    Rule("MODERATION", "CANCELLED", "MODERATOR", "CANCEL"),
    Rule("CANCELLED", "DRAFT", "DIRECTOR", "REOPEN") }

Transitions ==
  { Rule("DRAFT", "MODERATION", role, "SUBMIT") : role \in {"OPERATOR", "ADMIN"} }
  \union
  { Rule("MODERATION", "DIRECTOR_REVIEW", "MODERATOR", "APPROVE"),
    Rule("MODERATION", "DRAFT", "MODERATOR", "RETURN"),
    Rule("DIRECTOR_REVIEW", "FINALIZED", "DIRECTOR", "APPROVE"),
    Rule("DIRECTOR_REVIEW", "MODERATION", "DIRECTOR", "RETURN"),
    Rule("MODERATION", "CANCELLED", "MODERATOR", "CANCEL") }
  \union
  { Rule(from, "CANCELLED", "DIRECTOR", "CANCEL") :
      from \in {"MODERATION", "DIRECTOR_REVIEW", "ADMIN_FINALIZE"} }
  \union
  { Rule(from, "DRAFT", "DIRECTOR", "REOPEN") :
      from \in {"MODERATION", "DIRECTOR_REVIEW", "ADMIN_FINALIZE"} }

\* findTransition: the rules (at most one) for this status, role and decision.
FindTransition(from, role, decision) ==
  { r \in Transitions : r.from = from /\ r.role = role /\ r.decision = decision }

DeadlineSteps == {"MODERATION", "DIRECTOR_REVIEW"}

HasDeadline(status) == status \in DeadlineSteps

TerminalStatuses == {"FINALIZED", "REJECTED", "CANCELLED"}
=============================================================================
