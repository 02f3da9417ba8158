------------------------------ MODULE MCTasks ------------------------------
(***************************************************************************)
(* Two workers and two tasks of one role; one worker polls for work, one   *)
(* task is created under an idempotency key.                               *)
(***************************************************************************)
EXTENDS Tasks

CONSTANTS w1, w2, t1, t2

MCActor == {w1, w2}

MCTask == {t1, t2}

MCRoleOf ==
  [x \in MCActor \cup MCTask |-> "agent"]
=============================================================================
