--------------------------- MODULE MCTaskReports ---------------------------
(***************************************************************************)
(* One worker and one task for its role.                                   *)
(***************************************************************************)
EXTENDS TaskReports

CONSTANTS w1, t1

MCActor == {w1}

MCTask == {t1}

MCRoleOf == [x \in MCActor \cup MCTask |-> "agent"]
=============================================================================
