--------------------------- MODULE MCCaseLifecycle ---------------------------
(***************************************************************************)
(* Instances of CaseLifecycle: one account per role, two branches.         *)
(***************************************************************************)
EXTENDS CaseLifecycle, TLC

CONSTANTS op, mod, dir, adm

Symmetry == Permutations(Cases) \union Permutations(Requests)

MCRoleOf == op :> "OPERATOR" @@ mod :> "MODERATOR" @@ dir :> "DIRECTOR" @@ adm :> "ADMIN"

MCBranchOf == op :> "PS" @@ mod :> "GEN" @@ dir :> "GEN" @@ adm :> "GEN"

MCBranches == {"PS", "GEN"}

MCClerks == {op}

MCRoleOfClerks == [u \in MCClerks |-> MCRoleOf[u]]

MCBranchOfClerks == [u \in MCClerks |-> MCBranchOf[u]]

MCUsersNoAdmin == {op, mod, dir}

MCRoleOfNoAdmin == [u \in MCUsersNoAdmin |-> MCRoleOf[u]]

MCBranchOfNoAdmin == [u \in MCUsersNoAdmin |-> MCBranchOf[u]]
=============================================================================
